---- MODULE Spec2Model ----
(***************************************************************************)
(* Teaching-load distribution engine: the four solvers (OR-Tools CP-SAT,   *)
(* PuLP, genetic algorithm, simulated annealing) and the timetabling pass. *)
(*                                                                         *)
(* Numbers.  Hours, target_load and max_load are reals in the program.     *)
(* Here every such quantity is an integer count of twentieths of an hour   *)
(* (400 is 20.0 h, 401 is 20.05 h), so that values that are not multiples  *)
(* of 0.1 exist.  Faculty weights are kept in tenths (15 is 1.5).  An      *)
(* energy is kept multiplied by 200 (20 for the hours, 10 for the weight). *)
(* Floating-point rounding of the sums is not modelled.                    *)
(*                                                                         *)
(* Sequences are 1-based here and 0-based in the program: a gene g of a    *)
(* chromosome is the position of a faculty in instance.faculty, counted    *)
(* from 1.                                                                 *)
(***************************************************************************)
EXTENDS Integers, Sequences, FiniteSets, TLC

VARIABLES
    instance,   \* the ProblemInstance handed to solve / generate_timetable
    solver,     \* which solver class runs: "ortools", "pulp", "genetic", "sa", "none"
    params,     \* the constructor arguments of the solver
    pc,         \* position of the running solve
    activity_options, \* solve's local: activity position -> qualified faculty positions
    ga,         \* GeneticSolver.solve locals: population, best_solution, best_fitness, generation
    sa,         \* SimulatedAnnealingSolver.solve locals
    hist,       \* history: RNG use, chromosomes evaluated, backend calls, why the loop ended
                \* and the neighbour the last annealing step generated
    result,     \* the returned OptimizationResult, or NoResult
    rooms,      \* the room catalog list handed to generate_timetable (also timetable.rooms)
    tt,         \* generate_timetable's locals and the Timetable it builds
    activity_types, \* the members the loaded ActivityType enum declares
    random_state,   \* the state of the process-wide generator of the random module
    runs,       \* the solve calls of one process that may overlap, with their locals
    generator   \* a TimetableGenerator object and what its calls have returned

vars == <<instance, solver, params, pc, activity_options, ga, sa, hist, result,
          rooms, tt, activity_types, random_state, runs, generator>>

\* The process-wide generator and the calls that share it.  Spec and SpecTT
\* draw every random value as an unconstrained choice and do not track the
\* generator; SpecRuns and SpecCalls draw every value from random_state.
processVars == <<random_state, runs, generator>>

\* What the solvers never touch, and what the timetabling pass never touches
ttVars == <<rooms, tt, activity_types>>
solveVars == <<solver, params, activity_options, ga, sa, hist>>

--------------------------------------------------------------------------
(* Helpers on sequences and sets *)

Range(s) == {s[i] : i \in DOMAIN s}

RECURSIVE SumSeq(_)
SumSeq(s) == IF s = <<>> THEN 0 ELSE s[1] + SumSeq(Tail(s))

Abs(x) == IF x < 0 THEN -x ELSE x

\* Python's None is the empty tuple and a present value v is <<v>>; the same
\* for the value a call has returned (NoResult while it has returned nothing)
None == <<>>
Some(v) == <<v>>
NoResult == <<>>

\* float('inf'): a number above every energy the instances below can produce
Inf == 2 ^ 30

--------------------------------------------------------------------------
(* Domain model *)

\* Variant of QmGet with the default True: an absent pair counts as qualified
QmGetDefaultTrue(inst, fid, aid) == inst.qualification_matrix[<<fid, aid>>] # "false"

\* dict.get((f.id, activity.id), False) on the qualification matrix: an entry
\* of the matrix is "true", "false" or "absent" (no such key).
QmGet(inst, fid, aid) == inst.qualification_matrix[<<fid, aid>>] = "true"

\* faculty.preferences.get(activity.id, 0)
PrefGet(f, aid) == IF aid \in DOMAIN f.preferences THEN f.preferences[aid] ELSE 0

\* int(x * 10) on a non-negative real x given in twentieths: truncation
IntTimes10(v) == v \div 2

\* int(weight * 100) on a weight given in tenths
IntTimes100(w) == w * 10

FacultyIds(inst) == {inst.faculty[i].id : i \in 1..Len(inst.faculty)}
ActivityIds(inst) == {inst.activities[i].id : i \in 1..Len(inst.activities)}

\* ProblemInstance.get_total_demand / get_total_capacity
TotalDemand(inst) == SumSeq([i \in 1..Len(inst.activities) |-> inst.activities[i].hours])
TotalCapacity(inst) == SumSeq([i \in 1..Len(inst.faculty) |-> inst.faculty[i].max_load])

\* The positions of the faculty qualified for the activity at position i, in
\* faculty order (the inner loop of the pre-processing of both metaheuristics).
Qualified(inst, i) ==
    LET aid == inst.activities[i].id
        RECURSIVE Build(_)
        Build(k) == IF k > Len(inst.faculty) THEN <<>>
                    ELSE (IF QmGet(inst, inst.faculty[k].id, aid) THEN <<k>> ELSE <<>>)
                         \o Build(k + 1)
    IN Build(1)

\* Every activity has at least one qualified faculty
Coverable(inst) == \A i \in 1..Len(inst.activities) : Qualified(inst, i) # <<>>

\* The first activity position without qualified faculty (0 when there is none)
FirstUncovered(inst) ==
    IF Coverable(inst) THEN 0
    ELSE CHOOSE i \in 1..Len(inst.activities) :
            /\ Qualified(inst, i) = <<>>
            /\ \A j \in 1..(i - 1) : Qualified(inst, j) # <<>>

--------------------------------------------------------------------------
(* Chromosome evaluation, shared by GA and SA *)

\* Sum of hours of the activities a chromosome (or exact solution; 0 = not
\* assigned) gives to the faculty at position k
LoadOf(inst, chrom, k) ==
    SumSeq([i \in 1..Len(chrom) |-> IF chrom[i] = k THEN inst.activities[i].hours ELSE 0])

TotalPreference(inst, chrom) ==
    SumSeq([i \in 1..Len(chrom) |->
              IF chrom[i] = 0 THEN 0
              ELSE PrefGet(inst.faculty[chrom[i]], inst.activities[i].id)])

\* Penalty per hour above max_load, and the preference multiplier 0.5
\* (here 100 = 0.5 * 200 after scaling)
OverloadPenalty == 100
PreferenceImpact200 == 200 \div 2

\* GeneticSolver._calculate_fitness, times 200
CalculateFitness(inst, chrom) ==
    SumSeq([k \in 1..Len(inst.faculty) |->
              Abs(LoadOf(inst, chrom, k) - inst.faculty[k].target_load) * inst.faculty[k].weight
              + (IF LoadOf(inst, chrom, k) > inst.faculty[k].max_load
                 THEN (LoadOf(inst, chrom, k) - inst.faculty[k].max_load) * OverloadPenalty * 10
                 ELSE 0)])
    - TotalPreference(inst, chrom) * PreferenceImpact200

\* SimulatedAnnealingSolver._calculate_energy, times 200: the same formula
CalculateEnergy(inst, chrom) ==
    SumSeq([k \in 1..Len(inst.faculty) |->
              Abs(LoadOf(inst, chrom, k) - inst.faculty[k].target_load) * inst.faculty[k].weight
              + (IF LoadOf(inst, chrom, k) > inst.faculty[k].max_load
                 THEN (LoadOf(inst, chrom, k) - inst.faculty[k].max_load) * OverloadPenalty * 10
                 ELSE 0)])
    - TotalPreference(inst, chrom) * PreferenceImpact200

\* All chromosomes random.choice can build gene by gene from the options
\* (_initialize_population's inner loop, _generate_random_solution)
RandomChromosomes(inst, opts) ==
    {c \in [1..Len(inst.activities) -> 1..Len(inst.faculty)] :
        \A i \in 1..Len(inst.activities) : c[i] \in Range(opts[i])}

\* Variant of Mutate that draws the new gene from the options of any activity
MutateFromAnyOptions(chrom, opts) ==
    UNION {{[chrom EXCEPT ![idx] = g] : g \in UNION {Range(opts[i]) : i \in DOMAIN opts}} :
              idx \in DOMAIN chrom}

\* _mutate: one position idx = randint(0, len-1), its gene replaced by
\* random.choice(activity_options[idx]) (which may be the gene it had)
Mutate(chrom, opts) ==
    UNION {{[chrom EXCEPT ![idx] = g] : g \in Range(opts[idx])} : idx \in DOMAIN chrom}

\* The conversion of the best chromosome into assignments (both metaheuristics)
AssignmentsOf(inst, chrom) ==
    [i \in 1..Len(chrom) |->
        [faculty_id |-> inst.faculty[chrom[i]].id,
         activity_id |-> inst.activities[i].id,
         preference_score |-> PrefGet(inst.faculty[chrom[i]], inst.activities[i].id)]]

\* faculty_loads = {fid: 0.0 ...} and then += activity.hours per gene
FacultyLoadsOf(inst, chrom) ==
    [fid \in FacultyIds(inst) |->
        SumSeq([i \in 1..Len(chrom) |->
                  IF inst.faculty[chrom[i]].id = fid THEN inst.activities[i].hours ELSE 0])]

\* Variant of TotalDeviation that counts only the hours above the target
TotalDeviationAboveTarget(inst, loads) ==
    SumSeq([k \in 1..Len(inst.faculty) |->
              IF loads[inst.faculty[k].id] > inst.faculty[k].target_load
              THEN loads[inst.faculty[k].id] - inst.faculty[k].target_load ELSE 0])

\* total_dev = sum(abs(faculty_loads[f.id] - f.target_load) for f in faculty)
TotalDeviation(inst, loads) ==
    SumSeq([k \in 1..Len(inst.faculty) |->
              Abs(loads[inst.faculty[k].id] - inst.faculty[k].target_load)])

\* Variant of NoOverload that counts a load equal to max_load as an overload
NoOverloadStrict(inst, loads) ==
    \A k \in 1..Len(inst.faculty) : ~(loads[inst.faculty[k].id] >= inst.faculty[k].max_load)

\* the loop that clears is_feasible on the first overloaded faculty
NoOverload(inst, loads) ==
    \A k \in 1..Len(inst.faculty) : ~(loads[inst.faculty[k].id] > inst.faculty[k].max_load)

\* Variant of InfeasibleEarly that leaves is_feasible at its default, True
InfeasibleEarlyDefaultFeasible(inst, i) ==
    [assignments |-> <<>>,
     objective_value |-> Inf,
     total_deviation |-> Inf,
     solver_status |-> "INFEASIBLE",
     faculty_loads |-> <<>>,
     unassigned_activities |-> <<inst.activities[i].id>>,
     is_feasible |-> TRUE]

\* The early return of both metaheuristics when an activity has no qualified faculty
InfeasibleEarly(inst, i) ==
    [assignments |-> <<>>,
     objective_value |-> Inf,
     total_deviation |-> Inf,
     solver_status |-> "INFEASIBLE",
     faculty_loads |-> <<>>,
     unassigned_activities |-> <<inst.activities[i].id>>,
     is_feasible |-> FALSE]

\* The final return of both metaheuristics
CompletedResult(inst, best, value) ==
    [assignments |-> AssignmentsOf(inst, best),
     objective_value |-> value,
     total_deviation |-> TotalDeviation(inst, FacultyLoadsOf(inst, best)),
     solver_status |-> "COMPLETED",
     faculty_loads |-> FacultyLoadsOf(inst, best),
     unassigned_activities |-> <<>>,
     is_feasible |-> NoOverload(inst, FacultyLoadsOf(inst, best))]

--------------------------------------------------------------------------
(* GeneticSolver *)

\* k of _tournament_selection
TournamentSize == 3

\* _tournament_selection's loop: draws[1] is selection_ix, every later draw
\* replaces it when its fitness is strictly smaller
RECURSIVE TournamentWinner(_, _, _, _)
TournamentWinner(scores, draws, j, selection_ix) ==
    IF j > Len(draws) THEN selection_ix
    ELSE TournamentWinner(scores, draws, j + 1,
                          IF scores[draws[j]] < scores[selection_ix]
                          THEN draws[j] ELSE selection_ix)

\* The individuals _tournament_selection can return
TournamentSelection(population, scores) ==
    {population[TournamentWinner(scores, draws, 2, draws[1])] :
        draws \in [1..TournamentSize -> DOMAIN population]}

\* _crossover: each gene from parent1 or parent2
Crossover(parent1, parent2) ==
    {[i \in DOMAIN parent1 |-> IF m[i] THEN parent1[i] ELSE parent2[i]] :
        m \in [DOMAIN parent1 -> BOOLEAN]}

\* The outcomes of random.random() < rate, rate in tenths: random() is in [0, 1)
RandomBelow(rate) == {b \in BOOLEAN : (b => rate > 0) /\ (~b => rate < 10)}

\* One pass of the body of the "fill rest of population" loop: the children
\* it can append
Children(population, scores, opts, prm) ==
    LET crossed ==
            UNION {UNION {UNION {IF c THEN Crossover(p1, p2) ELSE {p1} :
                                    c \in RandomBelow(prm.crossover_rate)} :
                             p2 \in TournamentSelection(population, scores)} :
                      p1 \in TournamentSelection(population, scores)}
    IN UNION {UNION {IF m THEN Mutate(child, opts) ELSE {child} :
                        m \in RandomBelow(prm.mutation_rate)} :
                 child \in crossed}

\* Variant of EvaluateFrom that records every individual it evaluates as the
\* best one, whatever its fitness
RECURSIVE EvaluateFromKeepLast(_, _, _, _)
EvaluateFromKeepLast(inst, population, i, best) ==
    IF i > Len(population) THEN best
    ELSE EvaluateFromKeepLast(inst, population, i + 1,
                              [best_fitness |-> CalculateFitness(inst, population[i]),
                               best_solution |-> Some(population[i])])

\* The evaluation loop of a generation: best_fitness / best_solution after the
\* individuals from position i on have been evaluated in order
RECURSIVE EvaluateFrom(_, _, _, _)
EvaluateFrom(inst, population, i, best) ==
    IF i > Len(population) THEN best
    ELSE EvaluateFrom(inst, population, i + 1,
                      IF CalculateFitness(inst, population[i]) < best.best_fitness
                      THEN [best_fitness |-> CalculateFitness(inst, population[i]),
                            best_solution |-> Some(population[i])]
                      ELSE best)

\* Variant of ArgSort that sorts the scores descending
ArgSortDescending(scores) ==
    {p \in [DOMAIN scores -> DOMAIN scores] :
        /\ \A i, j \in DOMAIN scores : i # j => p[i] # p[j]
        /\ \A i, j \in DOMAIN scores : i < j => scores[p[i]] >= scores[p[j]]}

\* np.argsort(fitness_scores): the index orders that sort the scores ascending
\* (the order of equal scores is the sorting algorithm's)
ArgSort(scores) ==
    {p \in [DOMAIN scores -> DOMAIN scores] :
        /\ \A i, j \in DOMAIN scores : i # j => p[i] # p[j]
        /\ \A i, j \in DOMAIN scores : i < j => scores[p[i]] <= scores[p[j]]}

\* The start of GeneticSolver.solve: pre-processing, the early INFEASIBLE
\* return, and _initialize_population
GAStart ==
    /\ solver = "genetic" /\ pc = "start"
    /\ IF ~Coverable(instance)
       THEN /\ result' = Some(InfeasibleEarly(instance, FirstUncovered(instance)))
            /\ pc' = "done"
            /\ UNCHANGED <<activity_options, ga, hist>>
       ELSE /\ activity_options' = [i \in 1..Len(instance.activities) |-> Qualified(instance, i)]
            /\ \E population \in [1..params.population_size ->
                                     RandomChromosomes(instance, activity_options')] :
                  ga' = [population |-> population, best_solution |-> None,
                         best_fitness |-> Inf, generation |-> 0]
            /\ hist' = [hist EXCEPT !.rng = TRUE]
            /\ pc' = "ga_loop"
            /\ UNCHANGED result
    /\ UNCHANGED <<instance, solver, params, sa>>
    /\ UNCHANGED ttVars
    /\ UNCHANGED processVars

\* The loop head: range(self.generations) is exhausted
GAGenerationsDone ==
    /\ solver = "genetic" /\ pc = "ga_loop"
    /\ ga.generation >= params.generations
    /\ pc' = "ga_final"
    /\ hist' = [hist EXCEPT !.exit = "count"]
    /\ UNCHANGED <<instance, solver, params, activity_options, ga, sa, result>>
    /\ UNCHANGED ttVars
    /\ UNCHANGED processVars

\* The loop head: time.time() - start_time > self.time_limit, break
GATimeLimit ==
    /\ solver = "genetic" /\ pc = "ga_loop"
    /\ ga.generation < params.generations
    /\ pc' = "ga_final"
    /\ hist' = [hist EXCEPT !.exit = "time"]
    /\ UNCHANGED <<instance, solver, params, activity_options, ga, sa, result>>
    /\ UNCHANGED ttVars
    /\ UNCHANGED processVars

\* One generation: evaluation, elitism, selection, crossover, mutation
GAGeneration ==
    /\ solver = "genetic" /\ pc = "ga_loop"
    /\ ga.generation < params.generations
    /\ LET population == ga.population
           fitness_scores == [i \in DOMAIN population |->
                                 CalculateFitness(instance, population[i])]
           best == EvaluateFrom(instance, population, 1,
                                [best_fitness |-> ga.best_fitness,
                                 best_solution |-> ga.best_solution])
       IN /\ hist' = [hist EXCEPT !.rng = TRUE,
                                  !.evaluated = @ \cup Range(population)]
          /\ IF params.elite_size > Len(population)
             THEN \* population[sorted_indices[i]]: IndexError
                  /\ pc' = "raised"
                  /\ ga' = [ga EXCEPT !.best_solution = best.best_solution,
                                      !.best_fitness = best.best_fitness]
             ELSE /\ pc' = "ga_loop"
                  /\ \E sorted_indices \in ArgSort(fitness_scores) :
                     \E rest \in [1..(params.population_size - params.elite_size) ->
                                      Children(population, fitness_scores,
                                               activity_options, params)] :
                        ga' = [population |->
                                   [i \in 1..params.elite_size |->
                                       population[sorted_indices[i]]] \o rest,
                               best_solution |-> best.best_solution,
                               best_fitness |-> best.best_fitness,
                               generation |-> ga.generation + 1]
    /\ UNCHANGED <<instance, solver, params, activity_options, sa, result>>
    /\ UNCHANGED ttVars
    /\ UNCHANGED processVars

\* After the loop: the conversion of best_solution into the result.
\* enumerate(best_solution) raises TypeError when best_solution is None.
GAFinal ==
    /\ solver = "genetic" /\ pc = "ga_final"
    /\ IF ga.best_solution = None
       THEN pc' = "raised" /\ UNCHANGED result
       ELSE /\ pc' = "done"
            /\ result' = Some(CompletedResult(instance, ga.best_solution[1], ga.best_fitness))
    /\ UNCHANGED <<instance, solver, params, activity_options, ga, sa, hist>>
    /\ UNCHANGED ttVars
    /\ UNCHANGED processVars

--------------------------------------------------------------------------
(* SimulatedAnnealingSolver *)

\* temp *= self.cooling_rate, the rate given as a fraction
CoolDown(temp, rate) == (temp * rate.num) \div rate.den

\* The start of SimulatedAnnealingSolver.solve: pre-processing, the early
\* INFEASIBLE return, the random initial solution and its energy
SAStart ==
    /\ solver = "sa" /\ pc = "start"
    /\ IF ~Coverable(instance)
       THEN /\ result' = Some(InfeasibleEarly(instance, FirstUncovered(instance)))
            /\ pc' = "done"
            /\ UNCHANGED <<activity_options, sa, hist>>
       ELSE /\ activity_options' = [i \in 1..Len(instance.activities) |-> Qualified(instance, i)]
            /\ \E current_solution \in RandomChromosomes(instance, activity_options') :
                  /\ sa' = [current_solution |-> current_solution,
                            current_energy |-> CalculateEnergy(instance, current_solution),
                            best_solution |-> current_solution,
                            best_energy |-> CalculateEnergy(instance, current_solution),
                            temp |-> params.initial_temp,
                            step |-> 0]
                  /\ hist' = [hist EXCEPT !.rng = TRUE, !.evaluated = {current_solution}]
            /\ pc' = "sa_loop"
            /\ UNCHANGED result
    /\ UNCHANGED <<instance, solver, params, ga>>
    /\ UNCHANGED ttVars
    /\ UNCHANGED processVars

\* The loop head: while temp > self.min_temp fails
SATempDone ==
    /\ solver = "sa" /\ pc = "sa_loop"
    /\ ~(sa.temp > params.min_temp)
    /\ pc' = "sa_final"
    /\ hist' = [hist EXCEPT !.exit = "temp"]
    /\ UNCHANGED <<instance, solver, params, activity_options, ga, sa, result>>
    /\ UNCHANGED ttVars
    /\ UNCHANGED processVars

\* The loop head: time.time() - start_time > self.time_limit, break
SATimeLimit ==
    /\ solver = "sa" /\ pc = "sa_loop"
    /\ sa.temp > params.min_temp
    /\ pc' = "sa_final"
    /\ hist' = [hist EXCEPT !.exit = "time"]
    /\ UNCHANGED <<instance, solver, params, activity_options, ga, sa, result>>
    /\ UNCHANGED ttVars
    /\ UNCHANGED processVars

\* The loop head passes: the inner block of steps_per_temp steps begins (with
\* no step to do the block is only the cooling)
SABlock ==
    /\ solver = "sa" /\ pc = "sa_loop"
    /\ sa.temp > params.min_temp
    /\ IF params.steps_per_temp > 0
       THEN pc' = "sa_step" /\ sa' = [sa EXCEPT !.step = 0]
       ELSE pc' = "sa_loop" /\ sa' = [sa EXCEPT !.temp = CoolDown(@, params.cooling_rate)]
    /\ UNCHANGED <<instance, solver, params, activity_options, ga, hist, result>>
    /\ UNCHANGED ttVars
    /\ UNCHANGED processVars

\* Variant of AcceptNeighbor in which best_solution is the same list as
\* current_solution and so follows an accepted neighbour that is not better
AcceptNeighborBestAliased(s, neighbor, neighbor_energy, accept) ==
    IF neighbor_energy - s.current_energy < 0
    THEN [s EXCEPT !.current_solution = neighbor,
                   !.current_energy = neighbor_energy,
                   !.best_solution = neighbor,
                   !.best_energy = IF neighbor_energy < s.best_energy
                                   THEN neighbor_energy ELSE @]
    ELSE IF accept
    THEN [s EXCEPT !.current_solution = neighbor,
                   !.current_energy = neighbor_energy,
                   !.best_solution = neighbor]
    ELSE s

\* The acceptance of a neighbour: an improvement is always accepted, and
\* copied into best_solution when it beats best_energy; another neighbour
\* is accepted or not, and leaves best_solution and best_energy alone.
\* current_solution is rebound to the neighbour, itself a fresh copy, and
\* best_solution is a copy of it: no two of the lists are the same object.
AcceptNeighbor(s, neighbor, neighbor_energy, accept) ==
    IF neighbor_energy - s.current_energy < 0
    THEN [s EXCEPT !.current_solution = neighbor,
                   !.current_energy = neighbor_energy,
                   !.best_solution =
                       IF neighbor_energy < s.best_energy THEN neighbor ELSE @,
                   !.best_energy =
                       IF neighbor_energy < s.best_energy
                       THEN neighbor_energy ELSE @]
    ELSE IF accept
    THEN [s EXCEPT !.current_solution = neighbor,
                   !.current_energy = neighbor_energy]
    ELSE s

\* One step of the inner block: neighbour, energy, acceptance; after the
\* last step of the block the temperature is cooled
SAStep ==
    /\ solver = "sa" /\ pc = "sa_step"
    /\ \E neighbor \in Mutate(sa.current_solution, activity_options) :
       \E accept \in BOOLEAN :
          LET neighbor_energy == CalculateEnergy(instance, neighbor)
              delta_energy == neighbor_energy - sa.current_energy
              last == sa.step + 1 >= params.steps_per_temp
              after == AcceptNeighbor(sa, neighbor, neighbor_energy, accept)
          IN \* prob = exp(-delta_energy / temp) is 1 when delta_energy = 0, and
             \* random.random() < 1 always; for delta_energy > 0 both outcomes
             /\ (delta_energy = 0 => accept)
             /\ (delta_energy < 0 => accept)
             /\ sa' = [after EXCEPT !.step = IF last THEN 0 ELSE sa.step + 1,
                                    !.temp = IF last THEN CoolDown(@, params.cooling_rate)
                                             ELSE @]
             /\ pc' = IF last THEN "sa_loop" ELSE "sa_step"
             /\ hist' = [hist EXCEPT !.rng = TRUE, !.evaluated = @ \cup {neighbor},
                                      !.neighbor = Some(neighbor)]
    /\ UNCHANGED <<instance, solver, params, activity_options, ga, result>>
    /\ UNCHANGED ttVars
    /\ UNCHANGED processVars

\* After the loop: the conversion of best_solution into the result
SAFinal ==
    /\ solver = "sa" /\ pc = "sa_final"
    /\ pc' = "done"
    /\ result' = Some(CompletedResult(instance, sa.best_solution, sa.best_energy))
    /\ UNCHANGED <<instance, solver, params, activity_options, ga, sa, hist>>
    /\ UNCHANGED ttVars
    /\ UNCHANGED processVars

--------------------------------------------------------------------------
(* Exact solvers.  A value of the decision variables x is written as a     *)
(* function sol from activity positions to faculty positions: sol[i] = k   *)
(* says x[(faculty k, activity i)] = 1, and sol[i] = 0 says that no x of   *)
(* activity i is 1.                                                        *)

\* Variant of CoverConstraint that lets an activity go without a faculty
CoverConstraintAtMostOne(inst, sol) ==
    \A i \in 1..Len(inst.activities) :
        sol[i] = 0 \/ sol[i] \in Range(Qualified(inst, i))

\* The x built by both solvers has a variable only for a qualified pair, and
\* the cover constraint sum(x[., a]) == 1 is added only for an activity with
\* at least one variable ("continue" otherwise).
CoverConstraint(inst, sol) ==
    \A i \in 1..Len(inst.activities) :
        IF Qualified(inst, i) = <<>> THEN sol[i] = 0
        ELSE sol[i] \in Range(Qualified(inst, i))

SolutionSpace(inst) == [1..Len(inst.activities) -> 0..Len(inst.faculty)]

\* CP-SAT: load variable == sum of x * int(hours * 10)
CpLoad(inst, sol, k) ==
    SumSeq([i \in 1..Len(sol) |->
              IF sol[i] = k THEN IntTimes10(inst.activities[i].hours) ELSE 0])

\* CP-SAT: the constraints of the model.  The load variable has the domain
\* [0, int(max_load * 10)] and is bounded by int(max_load * 10); the deviation
\* variables have the domain [0, int(max_load * 10)] and split load - target,
\* which has a solution exactly when |load - target| fits the domain.
CpFeasible(inst, sol) ==
    /\ CoverConstraint(inst, sol)
    /\ \A k \in 1..Len(inst.faculty) :
          /\ CpLoad(inst, sol, k) <= IntTimes10(inst.faculty[k].max_load)
          /\ Abs(CpLoad(inst, sol, k) - IntTimes10(inst.faculty[k].target_load))
                <= IntTimes10(inst.faculty[k].max_load)

\* preference_weight of the CP-SAT objective
PreferenceWeight == 10

\* CP-SAT: the objective at the smallest deviations the constraints allow
CpObjective(inst, sol) ==
    SumSeq([k \in 1..Len(inst.faculty) |->
              IntTimes100(inst.faculty[k].weight)
              * Abs(CpLoad(inst, sol, k) - IntTimes10(inst.faculty[k].target_load))])
    - SumSeq([i \in 1..Len(sol) |->
                IF sol[i] = 0 THEN 0
                ELSE PrefGet(inst.faculty[sol[i]], inst.activities[i].id) * PreferenceWeight])

CpSolutions(inst) == {sol \in SolutionSpace(inst) : CpFeasible(inst, sol)}

CpOptimal(inst) ==
    {sol \in CpSolutions(inst) :
        \A other \in CpSolutions(inst) : CpObjective(inst, sol) <= CpObjective(inst, other)}

\* What self.solver.Solve(self.model) can answer: a status and, with OPTIMAL
\* or FEASIBLE, the values of x.  A time limit that elapses gives FEASIBLE
\* with the incumbent or UNKNOWN without one.
CpSolve(inst) ==
    {[status |-> "OPTIMAL", sol |-> sol] : sol \in CpOptimal(inst)}
    \cup {[status |-> "FEASIBLE", sol |-> sol] : sol \in CpSolutions(inst)}
    \cup {[status |-> "UNKNOWN", sol |-> <<>>]}
    \cup (IF CpSolutions(inst) = {} THEN {[status |-> "INFEASIBLE", sol |-> <<>>]} ELSE {})

\* The extraction loops of both exact solvers: for faculty, for activity,
\* append an Assignment where x is 1
RECURSIVE ExactAssignmentsFrom(_, _, _, _)
ExactAssignmentsFrom(inst, sol, k, i) ==
    IF k > Len(inst.faculty) THEN <<>>
    ELSE IF i > Len(inst.activities) THEN ExactAssignmentsFrom(inst, sol, k + 1, 1)
    ELSE (IF sol[i] = k
          THEN <<[faculty_id |-> inst.faculty[k].id,
                  activity_id |-> inst.activities[i].id,
                  preference_score |-> PrefGet(inst.faculty[k], inst.activities[i].id)]>>
          ELSE <<>>)
         \o ExactAssignmentsFrom(inst, sol, k, i + 1)

\* Variant of ActualLoads that reads the loads off the scaled model: the sum
\* of int(hours * 10), divided by 10
ActualLoadsFromModel(inst, sol) ==
    [fid \in FacultyIds(inst) |->
        SumSeq([i \in 1..Len(sol) |->
                  IF sol[i] # 0 /\ inst.faculty[sol[i]].id = fid
                  THEN IntTimes10(inst.activities[i].hours) * 2 ELSE 0])]

\* actual_loads[faculty.id] = total_load, the sum of the real hours
ActualLoads(inst, sol) ==
    [fid \in FacultyIds(inst) |->
        SumSeq([i \in 1..Len(sol) |->
                  IF sol[i] # 0 /\ inst.faculty[sol[i]].id = fid
                  THEN inst.activities[i].hours ELSE 0])]

\* The result both exact solvers build from a solution
ExactResult(inst, sol, status, value) ==
    [assignments |-> ExactAssignmentsFrom(inst, sol, 1, 1),
     objective_value |-> value,
     total_deviation |-> TotalDeviation(inst, ActualLoads(inst, sol)),
     solver_status |-> status,
     faculty_loads |-> ActualLoads(inst, sol),
     unassigned_activities |-> <<>>,
     is_feasible |-> TRUE]

\* The result both exact solvers build without a solution
ExactNoSolution(inst, status) ==
    [assignments |-> <<>>,
     objective_value |-> Inf,
     total_deviation |-> Inf,
     solver_status |-> status,
     faculty_loads |-> <<>>,
     unassigned_activities |-> [i \in 1..Len(inst.activities) |-> inst.activities[i].id],
     is_feasible |-> FALSE]

\* ORToolsSolver.solve: the model, the backend call, the result.
\* objective_value is kept times 1000 (the program divides by 1000).
ORToolsSolve ==
    /\ solver = "ortools" /\ pc = "start"
    /\ \E answer \in CpSolve(instance) :
          result' = Some(IF answer.status \in {"OPTIMAL", "FEASIBLE"}
                         THEN ExactResult(instance, answer.sol, answer.status,
                                          CpObjective(instance, answer.sol))
                         ELSE ExactNoSolution(instance, answer.status))
    /\ hist' = [hist EXCEPT !.searched = TRUE]
    /\ pc' = "done"
    /\ UNCHANGED <<instance, solver, params, activity_options, ga, sa>>
    /\ UNCHANGED ttVars
    /\ UNCHANGED processVars

\* PuLP: the load variable equals the sum of x * hours, lies in [0, max_load]
\* and is bounded by max_load; the deviation variable lies in [0, max_load]
\* and is at least |load - target|
LpFeasible(inst, sol) ==
    /\ CoverConstraint(inst, sol)
    /\ \A k \in 1..Len(inst.faculty) :
          /\ LoadOf(inst, sol, k) <= inst.faculty[k].max_load
          /\ Abs(LoadOf(inst, sol, k) - inst.faculty[k].target_load)
                <= inst.faculty[k].max_load

\* PuLP: the objective, weight * deviation only, times 200
LpObjective(inst, sol) ==
    SumSeq([k \in 1..Len(inst.faculty) |->
              inst.faculty[k].weight
              * Abs(LoadOf(inst, sol, k) - inst.faculty[k].target_load)])

LpSolutions(inst) == {sol \in SolutionSpace(inst) : LpFeasible(inst, sol)}

\* gapRel = 0.01, in percent: CBC may stop at a solution within 1 % of the optimum
GapRelPercent == 1

LpOptimal(inst) ==
    {sol \in LpSolutions(inst) :
        \A other \in LpSolutions(inst) :
            (LpObjective(inst, sol) - LpObjective(inst, other)) * 100
                <= GapRelPercent * LpObjective(inst, sol)}

\* What self.prob.solve(solver) can answer: LpStatusOptimal with values,
\* LpStatusNotSolved with the incumbent of an elapsed time limit or without
\* values, LpStatusInfeasible
LpSolve(inst) ==
    {[status |-> "Optimal", sol |-> sol] : sol \in LpOptimal(inst)}
    \cup {[status |-> "Not Solved", sol |-> sol] : sol \in LpSolutions(inst)}
    \cup {[status |-> "Not Solved", sol |-> <<>>]}
    \cup (IF LpSolutions(inst) = {} THEN {[status |-> "Infeasible", sol |-> <<>>]} ELSE {})

\* status_names.get(status, "ERROR") of PuLPSolver.solve
LpStatusName(status) ==
    CASE status = "Infeasible" -> "INFEASIBLE"
      [] status = "Unbounded" -> "UNBOUNDED"
      [] status = "Not Solved" -> "NOT_SOLVED"
      [] status = "Undefined" -> "UNDEFINED"
      [] OTHER -> "ERROR"

\* PuLPSolver.solve: the model, the backend call, the result
PuLPSolve ==
    /\ solver = "pulp" /\ pc = "start"
    /\ \E answer \in LpSolve(instance) :
          result' = Some(IF answer.status \in {"Optimal", "Not Solved"} /\ answer.sol # <<>>
                         THEN ExactResult(instance, answer.sol,
                                          IF answer.status = "Optimal"
                                          THEN "OPTIMAL" ELSE "FEASIBLE",
                                          LpObjective(instance, answer.sol))
                         ELSE ExactNoSolution(instance, LpStatusName(answer.status)))
    /\ hist' = [hist EXCEPT !.searched = TRUE]
    /\ pc' = "done"
    /\ UNCHANGED <<instance, solver, params, activity_options, ga, sa>>
    /\ UNCHANGED ttVars
    /\ UNCHANGED processVars

--------------------------------------------------------------------------
(* Timetabling pass *)

\* class ActivityType of backend/core/models.py: the four members it declares
ActivityType == {"LECTURE", "PRACTICAL", "LAB", "SEMINAR"}

\* The seven-member ActivityType of the data model (section 3 of the
\* specification): the variant of models.py that also declares the members
\* the timetabler, the data generator and the report generator name
ActivityTypeSuperset ==
    ActivityType \cup {"BACHELOR_THESIS", "MASTER_THESIS", "RESEARCH_NIRM"}

\* Variant of ThesisTypes without the research member
ThesisTypesWithoutResearch == <<"BACHELOR_THESIS", "MASTER_THESIS">>

\* The members generate_timetable names in its skip test, in evaluation order
ThesisTypes == <<"BACHELOR_THESIS", "MASTER_THESIS", "RESEARCH_NIRM">>

\* list(DayOfWeek), by member name, and the ids of TimeSlot.get_standard_slots()
DayOfWeek == <<"MONDAY", "TUESDAY", "WEDNESDAY", "THURSDAY", "FRIDAY">>
StandardSlots == <<1, 2, 3, 4, 5, 6, 7, 8>>

\* Variant of PreferredTypes that prefers a classroom for every activity type
PreferredTypesClassroomOnly(activity_type) == {"CLASSROOM"}

\* room_type_map.get(activity.activity_type, [RoomType.CLASSROOM])
PreferredTypes(activity_type) ==
    CASE activity_type = "LECTURE" -> {"LECTURE_HALL", "CLASSROOM"}
      [] activity_type = "PRACTICAL" -> {"CLASSROOM"}
      [] activity_type = "LAB" -> {"LABORATORY", "COMPUTER_LAB"}
      [] activity_type = "SEMINAR" -> {"CLASSROOM"}
      [] OTHER -> {"CLASSROOM"}

\* Room.can_fit
CanFit(room, student_count) == room.capacity >= student_count

\* next((x for x in seq if x.id == id), None)
FirstWithId(seq, id) ==
    IF \E i \in 1..Len(seq) : seq[i].id = id
    THEN Some(seq[CHOOSE i \in 1..Len(seq) :
                    /\ seq[i].id = id
                    /\ \A j \in 1..(i - 1) : seq[j].id # id])
    ELSE None

\* Variant of SuitableRooms without the fall-back to the caller's list
SuitableRoomsNoFallback(activity, rms) ==
    LET preferred == SelectSeq(rms, LAMBDA r :
                        /\ r.room_type \in PreferredTypes(activity.activity_type)
                        /\ CanFit(r, activity.student_count))
        fitting == SelectSeq(rms, LAMBDA r : CanFit(r, activity.student_count))
    IN IF preferred # <<>> THEN [list |-> preferred, alias |-> FALSE]
       ELSE [list |-> fitting, alias |-> FALSE]

\* The candidate list of _find_suitable_room: the preferred fitting rooms, else
\* the fitting rooms, else the caller's list itself (alias: the same object)
SuitableRooms(activity, rms) ==
    LET preferred == SelectSeq(rms, LAMBDA r :
                        /\ r.room_type \in PreferredTypes(activity.activity_type)
                        /\ CanFit(r, activity.student_count))
        fitting == SelectSeq(rms, LAMBDA r : CanFit(r, activity.student_count))
    IN IF preferred # <<>> THEN [list |-> preferred, alias |-> FALSE]
       ELSE IF fitting # <<>> THEN [list |-> fitting, alias |-> FALSE]
       ELSE [list |-> rms, alias |-> TRUE]

\* random.shuffle(s): every order of s
Shuffles(s) ==
    IF s = <<>> THEN {<<>>}
    ELSE {[i \in 1..Len(s) |-> s[p[i]]] : p \in Permutations(1..Len(s))}

\* Variant of SlotFree that tests the room's busy set only
SlotFreeRoomOnly(room_schedule, faculty_schedule, room_id, faculty_id, day, slot_id) ==
    ~(slot_id \in room_schedule[room_id][day])

\* The two tests of the innermost loop of _find_suitable_room
SlotFree(room_schedule, faculty_schedule, room_id, faculty_id, day, slot_id) ==
    /\ ~(slot_id \in room_schedule[room_id][day])
    /\ ~(slot_id \in faculty_schedule[faculty_id][day])

\* Variant of FirstFree that never takes the first slot of a day
RECURSIVE FirstFreeAfterFirstSlot(_, _, _, _, _, _, _, _)
FirstFreeAfterFirstSlot(rs, ds, room_schedule, faculty_schedule, faculty_id, ri, di, si) ==
    IF ri > Len(rs) THEN None
    ELSE IF di > Len(ds)
         THEN FirstFreeAfterFirstSlot(rs, ds, room_schedule, faculty_schedule, faculty_id,
                                      ri + 1, 1, 1)
    ELSE IF si > Len(StandardSlots)
         THEN FirstFreeAfterFirstSlot(rs, ds, room_schedule, faculty_schedule, faculty_id,
                                      ri, di + 1, 1)
    ELSE IF si > 1 /\ SlotFree(room_schedule, faculty_schedule, rs[ri].id, faculty_id,
                               ds[di], StandardSlots[si])
         THEN Some([room |-> rs[ri], day |-> ds[di], slot_id |-> StandardSlots[si]])
    ELSE FirstFreeAfterFirstSlot(rs, ds, room_schedule, faculty_schedule, faculty_id,
                                 ri, di, si + 1)

\* The three nested loops of _find_suitable_room from (room ri, day di, slot
\* si) on: the first free triple, or None
RECURSIVE FirstFree(_, _, _, _, _, _, _, _)
FirstFree(rs, ds, room_schedule, faculty_schedule, faculty_id, ri, di, si) ==
    IF ri > Len(rs) THEN None
    ELSE IF di > Len(ds)
         THEN FirstFree(rs, ds, room_schedule, faculty_schedule, faculty_id, ri + 1, 1, 1)
    ELSE IF si > Len(StandardSlots)
         THEN FirstFree(rs, ds, room_schedule, faculty_schedule, faculty_id, ri, di + 1, 1)
    ELSE IF SlotFree(room_schedule, faculty_schedule, rs[ri].id, faculty_id,
                     ds[di], StandardSlots[si])
         THEN Some([room |-> rs[ri], day |-> ds[di], slot_id |-> StandardSlots[si]])
    ELSE FirstFree(rs, ds, room_schedule, faculty_schedule, faculty_id, ri, di, si + 1)

\* _find_suitable_room: what it can return, and the caller's room list after
\* it (the list is shuffled in place when the candidate list is the list itself)
FindSuitableRoom(activity, rms, room_schedule, faculty_schedule, faculty_id) ==
    LET suitable == SuitableRooms(activity, rms)
    IN {[rooms |-> IF suitable.alias THEN shuffled ELSE rms,
         found |-> FirstFree(shuffled, days_shuffled, room_schedule, faculty_schedule,
                             faculty_id, 1, 1, 1)] :
            shuffled \in Shuffles(suitable.list), days_shuffled \in Shuffles(DayOfWeek)}

\* Timetable.check_conflicts: one entry per pair of scheduled activities that
\* share (faculty_id, day, slot id), and one per pair that shares
\* (room_id, day, slot id); the empty set is the empty list
CheckConflicts(scheduled) ==
    {c \in {"faculty"} \X (1..Len(scheduled)) \X (1..Len(scheduled)) :
        /\ c[2] < c[3]
        /\ scheduled[c[2]].faculty_id = scheduled[c[3]].faculty_id
        /\ scheduled[c[2]].day = scheduled[c[3]].day
        /\ scheduled[c[2]].slot_id = scheduled[c[3]].slot_id}
    \cup
    {c \in {"room"} \X (1..Len(scheduled)) \X (1..Len(scheduled)) :
        /\ c[2] < c[3]
        /\ scheduled[c[2]].room_id = scheduled[c[3]].room_id
        /\ scheduled[c[2]].day = scheduled[c[3]].day
        /\ scheduled[c[2]].slot_id = scheduled[c[3]].slot_id}

IdleTT == [i |-> 0, faculty_schedule |-> <<>>, room_schedule |-> <<>>,
           scheduled_activities |-> <<>>, rooms_in |-> <<>>]

\* generate_timetable up to its loop: the Timetable over the caller's room
\* list and the empty busy sets of every faculty and room (a catalog is
\* always passed: rooms is not None)
TTStart ==
    /\ pc = "tt_start"
    /\ tt' = [i |-> 1,
              faculty_schedule |->
                  [fid \in FacultyIds(instance) |-> [d \in Range(DayOfWeek) |-> {}]],
              room_schedule |->
                  [rid \in {rooms[r].id : r \in 1..Len(rooms)} |->
                      [d \in Range(DayOfWeek) |-> {}]],
              scheduled_activities |-> <<>>,
              rooms_in |-> rooms]
    /\ pc' = "tt_loop"
    /\ UNCHANGED <<instance, result, rooms, activity_types>>
    /\ UNCHANGED solveVars
    /\ UNCHANGED processVars

\* One iteration of the loop over result.assignments
TTAssignment ==
    /\ pc = "tt_loop"
    /\ tt.i <= Len(result[1].assignments)
    /\ LET assignment == result[1].assignments[tt.i]
           activity == FirstWithId(instance.activities, assignment.activity_id)
           faculty == FirstWithId(instance.faculty, assignment.faculty_id)
           skip == /\ tt' = [tt EXCEPT !.i = @ + 1]
                   /\ pc' = "tt_loop"
                   /\ UNCHANGED rooms
       IN IF activity = None \/ faculty = None
          THEN skip
          ELSE IF ~(Range(ThesisTypes) \subseteq activity_types)
          THEN \* ActivityType.BACHELOR_THESIS: AttributeError
               /\ pc' = "raised"
               /\ UNCHANGED <<tt, rooms>>
          ELSE IF activity[1].activity_type \in Range(ThesisTypes)
          THEN skip
          ELSE \E out \in FindSuitableRoom(activity[1], rooms, tt.room_schedule,
                                           tt.faculty_schedule, assignment.faculty_id) :
                  /\ rooms' = out.rooms
                  /\ pc' = "tt_loop"
                  /\ IF out.found = None
                     THEN tt' = [tt EXCEPT !.i = @ + 1]
                     ELSE LET room == out.found[1].room
                              day == out.found[1].day
                              slot_id == out.found[1].slot_id
                          IN tt' = [tt EXCEPT
                                !.i = @ + 1,
                                !.scheduled_activities =
                                    Append(@, [activity_id |-> activity[1].id,
                                               faculty_id |-> assignment.faculty_id,
                                               day |-> day,
                                               slot_id |-> slot_id,
                                               room_id |-> room.id,
                                               activity_type |-> activity[1].activity_type]),
                                !.faculty_schedule[assignment.faculty_id][day] =
                                    @ \cup {slot_id},
                                !.room_schedule[room.id][day] = @ \cup {slot_id}]
    /\ UNCHANGED <<instance, result, activity_types>>
    /\ UNCHANGED solveVars
    /\ UNCHANGED processVars

\* The loop is exhausted: return timetable
TTReturn ==
    /\ pc = "tt_loop"
    /\ tt.i > Len(result[1].assignments)
    /\ pc' = "tt_done"
    /\ UNCHANGED <<instance, result, rooms, tt, activity_types>>
    /\ UNCHANGED solveVars
    /\ UNCHANGED processVars

--------------------------------------------------------------------------
(* The instances and parameters the solvers are run on *)

\* Bounds of the model
MaxGenerations == 2
MaxStepsPerTemp == 2

FacultyIdList == <<11, 12>>
ActivityIdList == <<"a1", "a2">>

\* hours: 20.0 h and 20.05 h; max_load: 15.0 h and 20.0 h
HoursChoices == {400, 401}
MaxLoadChoices == {300, 400}
PreferenceChoices == {<<>>, "a1" :> 4}

\* Two faculty (a Professor, weight 1.5, and a Teacher, weight 1.0), two
\* activities; every qualification matrix whose entries for the first faculty
\* are true or false and for the second true or absent
SolverInstances ==
    {[faculty |->
         <<[id |-> FacultyIdList[1], target_load |-> 300, max_load |-> m1,
            weight |-> 15, preferences |-> prefs],
           [id |-> FacultyIdList[2], target_load |-> 300, max_load |-> 400,
            weight |-> 10, preferences |-> <<>>]>>,
      activities |->
         <<[id |-> ActivityIdList[1], hours |-> h1,
            activity_type |-> "LECTURE", student_count |-> 30],
           [id |-> ActivityIdList[2], hours |-> h2,
            activity_type |-> "PRACTICAL", student_count |-> 30]>>,
      qualification_matrix |-> qm] :
        m1 \in MaxLoadChoices, h1 \in HoursChoices, h2 \in HoursChoices,
        prefs \in PreferenceChoices,
        qm \in {q \in [Range(FacultyIdList) \X Range(ActivityIdList) ->
                           {"true", "false", "absent"}] :
                   \A a \in Range(ActivityIdList) :
                       /\ q[<<FacultyIdList[1], a>>] # "absent"
                       /\ q[<<FacultyIdList[2], a>>] # "false"}}

\* GeneticSolver(population_size, generations, mutation_rate, crossover_rate,
\* elite_size): rates in tenths, the defaults 0.1 and 0.8
GeneticParams ==
    {[population_size |-> 2, generations |-> g, mutation_rate |-> 1,
      crossover_rate |-> 8, elite_size |-> 1] : g \in 0..MaxGenerations}

\* SimulatedAnnealingSolver(initial_temp, cooling_rate, min_temp, steps_per_temp)
AnnealingParams ==
    {[initial_temp |-> t0, cooling_rate |-> [num |-> 1, den |-> 2], min_temp |-> 1,
      steps_per_temp |-> k] : t0 \in {1, 4}, k \in 1..MaxStepsPerTemp}

\* ORToolsSolver() and PuLPSolver() take only the time limit
ExactParams == {[time_limit |-> "any"]}

IdleGA == [population |-> <<>>, best_solution |-> None, best_fitness |-> Inf, generation |-> 0]
IdleSA == [current_solution |-> <<>>, current_energy |-> 0, best_solution |-> <<>>,
           best_energy |-> 0, temp |-> 0, step |-> 0]
IdleHist == [rng |-> FALSE, evaluated |-> {}, searched |-> FALSE, exit |-> "none",
             neighbor |-> None]
IdleGenerator == [seed |-> None, calls |-> <<>>]

\* A solver object has been constructed and solve(instance) is entered
Init ==
    /\ instance \in SolverInstances
    /\ solver \in {"ortools", "pulp", "genetic", "sa"}
    /\ params \in (CASE solver = "genetic" -> GeneticParams
                     [] solver = "sa" -> AnnealingParams
                     [] OTHER -> ExactParams)
    /\ pc = "start"
    /\ activity_options = <<>>
    /\ ga = IdleGA
    /\ sa = IdleSA
    /\ hist = IdleHist
    /\ result = NoResult
    /\ rooms = <<>>
    /\ tt = IdleTT
    /\ activity_types = ActivityType
    /\ random_state = 0
    /\ runs = <<>>
    /\ generator = IdleGenerator

Next ==
    \/ GAStart \/ GAGenerationsDone \/ GATimeLimit \/ GAGeneration \/ GAFinal
    \/ SAStart \/ SATempDone \/ SATimeLimit \/ SABlock \/ SAStep \/ SAFinal
    \/ ORToolsSolve
    \/ PuLPSolve

Spec == Init /\ [][Next]_vars

--------------------------------------------------------------------------
(* The results and room catalogs the timetabling pass is run on *)

MaxAssignments == 3

\* Two faculty; a lecture of 30 students, a lab of 10, a practical of 200
\* (no room of the catalogs fits it) and, where the enum has the member, a
\* bachelor thesis
TimetableInstance(types) ==
    [faculty |->
        <<[id |-> FacultyIdList[1], target_load |-> 300, max_load |-> 400,
           weight |-> 15, preferences |-> <<>>],
          [id |-> FacultyIdList[2], target_load |-> 300, max_load |-> 400,
           weight |-> 10, preferences |-> <<>>]>>,
     activities |->
        <<[id |-> "a1", hours |-> 400, activity_type |-> "LECTURE", student_count |-> 30],
          [id |-> "a2", hours |-> 400, activity_type |-> "LAB", student_count |-> 10],
          [id |-> "a3", hours |-> 400, activity_type |-> "PRACTICAL", student_count |-> 200]>>
        \o (IF "BACHELOR_THESIS" \in types
            THEN <<[id |-> "a4", hours |-> 400, activity_type |-> "BACHELOR_THESIS",
                    student_count |-> 1]>>
            ELSE <<>>),
     qualification_matrix |->
        [q \in Range(FacultyIdList) \X {"a1", "a2", "a3", "a4"} |-> "true"]]

\* The assignments a result may hold: known pairs, an activity id that only
\* the seven-member instance has, and a faculty id no faculty has
AssignmentPool ==
    {[faculty_id |-> pr[1], activity_id |-> pr[2], preference_score |-> 0] :
        pr \in {<<11, "a1">>, <<11, "a2">>, <<12, "a3">>, <<12, "a4">>, <<99, "a1">>}}

RoomCatalogs ==
    {<<[id |-> "LH01", room_type |-> "LECTURE_HALL", capacity |-> 100],
       [id |-> "LB01", room_type |-> "LABORATORY", capacity |-> 20]>>,
     <<[id |-> "CR01", room_type |-> "CLASSROOM", capacity |-> 40]>>}

\* A TimetableGenerator has been constructed and generate_timetable(instance,
\* result, rooms) is entered
InitTT ==
    /\ activity_types \in {ActivityType, ActivityTypeSuperset}
    /\ instance = TimetableInstance(activity_types)
    /\ \E n \in 0..MaxAssignments : \E assignments \in [1..n -> AssignmentPool] :
          result = Some([assignments |-> assignments,
                         objective_value |-> 0,
                         total_deviation |-> 0,
                         solver_status |-> "COMPLETED",
                         faculty_loads |-> <<>>,
                         unassigned_activities |-> <<>>,
                         is_feasible |-> TRUE])
    /\ rooms \in RoomCatalogs
    /\ pc = "tt_start"
    /\ tt = IdleTT
    /\ solver = "none"
    /\ params = [seed |-> 42]
    /\ activity_options = <<>>
    /\ ga = IdleGA
    /\ sa = IdleSA
    /\ hist = IdleHist
    /\ random_state = 0
    /\ runs = <<>>
    /\ generator = IdleGenerator

NextTT == TTStart \/ TTAssignment \/ TTReturn

SpecTT == InitTT /\ [][NextTT]_vars

--------------------------------------------------------------------------
(* The process-wide generator of the random module, and solve calls that   *)
(* draw from it.  Of the Mersenne Twister the model keeps what decides the *)
(* claims about it: it has a state, every draw is a function of the state  *)
(* and moves the state to its successor, and random.seed(s) sets the state *)
(* as a function of s.  Neither solver has a seed parameter or a generator *)
(* of its own: every random.choice, random.randint and random.random of a  *)
(* solve reads and writes this one state.                                  *)

\* Bounds of the model: the number of states of the generator, and the
\* number of generate_timetable calls made on one TimetableGenerator
RandomStates == 3
MaxCalls == 2

\* The seeds other code passes to random.seed (42 is the default seed of
\* DataGenerator and TimetableGenerator)
Seeds == {42, 7}

\* random.seed(seed)
SeedState(seed) == seed % RandomStates

\* The state after a draw
Advance(state) == (state + 1) % RandomStates

\* The n-th element (from 0) of a finite set in a fixed order
RECURSIVE Nth(_, _)
Nth(S, n) ==
    LET x == CHOOSE y \in S : TRUE
    IN IF n = 0 THEN x ELSE Nth(S \ {x}, n - 1)

\* What the code that draws in `state` obtains, of the outcomes its draws
\* can have
RandomPick(outcomes, state) == Nth(outcomes, state % Cardinality(outcomes))

\* A solver object constructed and its solve about to be entered
NewRun(slv, prm) ==
    [solver |-> slv, params |-> prm, pc |-> "start", activity_options |-> <<>>,
     ga |-> IdleGA, sa |-> IdleSA, result |-> NoResult, start_state |-> None]

\* GeneticSolver.solve, one step (as GAStart, GAGenerationsDone, GAGeneration
\* and GAFinal) of the run r with the generator in state s: the run and the
\* generator after it.  The time limit does not elapse.
GARunStep(inst, r, s) ==
    CASE r.pc = "start" ->
            IF ~Coverable(inst)
            THEN [run |-> [r EXCEPT !.pc = "done",
                                    !.result = Some(InfeasibleEarly(inst, FirstUncovered(inst)))],
                  state |-> s]
            ELSE LET opts == [i \in 1..Len(inst.activities) |-> Qualified(inst, i)]
                 IN [run |-> [r EXCEPT
                        !.pc = "ga_loop",
                        !.activity_options = opts,
                        !.ga = [population |->
                                    RandomPick([1..r.params.population_size ->
                                                   RandomChromosomes(inst, opts)], s),
                                best_solution |-> None, best_fitness |-> Inf,
                                generation |-> 0]],
                     state |-> Advance(s)]
      [] r.pc = "ga_loop" /\ r.ga.generation >= r.params.generations ->
            [run |-> [r EXCEPT !.pc = "ga_final"], state |-> s]
      [] r.pc = "ga_loop" /\ r.ga.generation < r.params.generations ->
            LET population == r.ga.population
                fitness_scores == [i \in DOMAIN population |->
                                      CalculateFitness(inst, population[i])]
                best == EvaluateFrom(inst, population, 1,
                                     [best_fitness |-> r.ga.best_fitness,
                                      best_solution |-> r.ga.best_solution])
                sorted_indices == CHOOSE p \in ArgSort(fitness_scores) : TRUE
            IN IF r.params.elite_size > Len(population)
               THEN [run |-> [r EXCEPT !.pc = "raised"], state |-> s]
               ELSE [run |-> [r EXCEPT !.ga =
                        [population |->
                            [i \in 1..r.params.elite_size |-> population[sorted_indices[i]]]
                            \o RandomPick([1..(r.params.population_size - r.params.elite_size)
                                              -> Children(population, fitness_scores,
                                                          r.activity_options, r.params)], s),
                         best_solution |-> best.best_solution,
                         best_fitness |-> best.best_fitness,
                         generation |-> r.ga.generation + 1]],
                     state |-> Advance(s)]
      [] r.pc = "ga_final" ->
            IF r.ga.best_solution = None
            THEN [run |-> [r EXCEPT !.pc = "raised"], state |-> s]
            ELSE [run |-> [r EXCEPT !.pc = "done",
                                    !.result = Some(CompletedResult(inst, r.ga.best_solution[1],
                                                                    r.ga.best_fitness))],
                  state |-> s]

\* The neighbours and acceptances one step of the annealing block can draw
SAStepOutcomes(inst, r) ==
    {o \in [neighbor : Mutate(r.sa.current_solution, r.activity_options),
            accept : BOOLEAN] :
        CalculateEnergy(inst, o.neighbor) - r.sa.current_energy <= 0 => o.accept}

\* SimulatedAnnealingSolver.solve, one step (as SAStart, SATempDone, SABlock,
\* SAStep and SAFinal) of the run r with the generator in state s
SARunStep(inst, r, s) ==
    CASE r.pc = "start" ->
            IF ~Coverable(inst)
            THEN [run |-> [r EXCEPT !.pc = "done",
                                    !.result = Some(InfeasibleEarly(inst, FirstUncovered(inst)))],
                  state |-> s]
            ELSE LET opts == [i \in 1..Len(inst.activities) |-> Qualified(inst, i)]
                     current_solution == RandomPick(RandomChromosomes(inst, opts), s)
                 IN [run |-> [r EXCEPT
                        !.pc = "sa_loop",
                        !.activity_options = opts,
                        !.sa = [current_solution |-> current_solution,
                                current_energy |-> CalculateEnergy(inst, current_solution),
                                best_solution |-> current_solution,
                                best_energy |-> CalculateEnergy(inst, current_solution),
                                temp |-> r.params.initial_temp,
                                step |-> 0]],
                     state |-> Advance(s)]
      [] r.pc = "sa_loop" /\ ~(r.sa.temp > r.params.min_temp) ->
            [run |-> [r EXCEPT !.pc = "sa_final"], state |-> s]
      [] r.pc = "sa_loop" /\ r.sa.temp > r.params.min_temp ->
            IF r.params.steps_per_temp > 0
            THEN [run |-> [r EXCEPT !.pc = "sa_step", !.sa.step = 0], state |-> s]
            ELSE [run |-> [r EXCEPT !.sa.temp = CoolDown(@, r.params.cooling_rate)],
                  state |-> s]
      [] r.pc = "sa_step" ->
            LET o == RandomPick(SAStepOutcomes(inst, r), s)
                neighbor_energy == CalculateEnergy(inst, o.neighbor)
                delta_energy == neighbor_energy - r.sa.current_energy
                last == r.sa.step + 1 >= r.params.steps_per_temp
                after ==
                    IF delta_energy < 0
                    THEN [r.sa EXCEPT !.current_solution = o.neighbor,
                                      !.current_energy = neighbor_energy,
                                      !.best_solution =
                                          IF neighbor_energy < r.sa.best_energy
                                          THEN o.neighbor ELSE @,
                                      !.best_energy =
                                          IF neighbor_energy < r.sa.best_energy
                                          THEN neighbor_energy ELSE @]
                    ELSE IF o.accept
                    THEN [r.sa EXCEPT !.current_solution = o.neighbor,
                                      !.current_energy = neighbor_energy]
                    ELSE r.sa
            IN [run |-> [r EXCEPT
                    !.pc = IF last THEN "sa_loop" ELSE "sa_step",
                    !.sa = [after EXCEPT !.step = IF last THEN 0 ELSE r.sa.step + 1,
                                         !.temp = IF last
                                                  THEN CoolDown(@, r.params.cooling_rate)
                                                  ELSE @]],
                state |-> Advance(s)]
      [] r.pc = "sa_final" ->
            [run |-> [r EXCEPT !.pc = "done",
                               !.result = Some(CompletedResult(inst, r.sa.best_solution,
                                                               r.sa.best_energy))],
             state |-> s]

\* One step of a run; the step that enters solve notes the state of the
\* generator it found
RunStep(inst, r, s) ==
    LET out == IF r.solver = "genetic" THEN GARunStep(inst, r, s) ELSE SARunStep(inst, r, s)
    IN [run |-> IF r.pc = "start" THEN [out.run EXCEPT !.start_state = Some(s)] ELSE out.run,
        state |-> out.state]

RunEnded(r) == r.pc \in {"done", "raised"}

\* The run r from the generator state s to its end, no other code drawing
RECURSIVE RunAlone(_, _, _)
RunAlone(inst, r, s) ==
    IF RunEnded(r) THEN r
    ELSE RunAlone(inst, RunStep(inst, r, s).run, RunStep(inst, r, s).state)

\* A step of one of the solve calls of the process (the calls of two /solve
\* requests run on threads of the server's pool)
SolveStep ==
    /\ pc = "runs"
    /\ \E k \in DOMAIN runs :
          /\ ~RunEnded(runs[k])
          /\ runs' = [runs EXCEPT ![k] = RunStep(instance, runs[k], random_state).run]
          /\ random_state' = RunStep(instance, runs[k], random_state).state
    /\ UNCHANGED <<instance, pc, result, generator>>
    /\ UNCHANGED solveVars
    /\ UNCHANGED ttVars

\* Other code of the process draws from the generator (DataGenerator's
\* generate methods, TimetableGenerator._find_suitable_room)
OtherDraw ==
    /\ pc = "runs"
    /\ random_state' = Advance(random_state)
    /\ UNCHANGED <<instance, pc, result, runs, generator>>
    /\ UNCHANGED solveVars
    /\ UNCHANGED ttVars

\* Other code of the process seeds the generator (DataGenerator.__init__)
OtherSeed ==
    /\ pc = "runs"
    /\ \E seed \in Seeds : random_state' = SeedState(seed)
    /\ UNCHANGED <<instance, pc, result, runs, generator>>
    /\ UNCHANGED solveVars
    /\ UNCHANGED ttVars

\* The instances of the overlapping runs: every pair qualified, no preferences
RunInstances ==
    {inst \in SolverInstances :
        /\ \A p \in DOMAIN inst.qualification_matrix : inst.qualification_matrix[p] = "true"
        /\ inst.faculty[1].preferences = <<>>
        /\ inst.faculty[1].max_load = 400
        /\ inst.activities[1].hours = 400}

\* The solve calls: GeneticSolver with one generation, SimulatedAnnealingSolver
\* with two cooling blocks of one step
RunCalls ==
    {NewRun("genetic", p) : p \in {q \in GeneticParams : q.generations = 1}}
    \cup {NewRun("sa", p) :
            p \in {q \in AnnealingParams : q.initial_temp = 4 /\ q.steps_per_temp = 1}}

\* Two solve calls on the same instance are about to be entered, the
\* generator in any state
InitRuns ==
    /\ instance \in RunInstances
    /\ random_state \in 0..(RandomStates - 1)
    /\ runs \in [1..2 -> RunCalls]
    /\ pc = "runs"
    /\ solver = "none"
    /\ params = <<>>
    /\ activity_options = <<>>
    /\ ga = IdleGA
    /\ sa = IdleSA
    /\ hist = IdleHist
    /\ result = NoResult
    /\ rooms = <<>>
    /\ tt = IdleTT
    /\ activity_types = ActivityType
    /\ generator = IdleGenerator

NextRuns == SolveStep \/ OtherDraw \/ OtherSeed

SpecRuns == InitRuns /\ [][NextRuns]_vars

\* The two solve calls alone in the process: no other code draws or seeds
NextOverlap == SolveStep

SpecOverlap == InitRuns /\ [][NextOverlap]_vars

--------------------------------------------------------------------------
(* Calls of generate_timetable that draw from the process-wide generator *)

\* generate_timetable from the assignment at position i on, the generator in
\* `state`: the loop of TTAssignment with every shuffle drawn from the
\* generator.  The outcome, the scheduled activities, the caller's room list
\* and the generator after the call.
RECURSIVE GenerateTimetableFrom(_, _, _, _, _, _, _, _, _)
GenerateTimetableFrom(inst, assignments, types, i, rms, faculty_schedule, room_schedule, scheduled_activities, state) ==
    IF i > Len(assignments)
    THEN [outcome |-> "returned", scheduled_activities |-> scheduled_activities,
          rooms |-> rms, state |-> state]
    ELSE LET assignment == assignments[i]
             activity == FirstWithId(inst.activities, assignment.activity_id)
             faculty == FirstWithId(inst.faculty, assignment.faculty_id)
             out == RandomPick(FindSuitableRoom(activity[1], rms, room_schedule,
                                                faculty_schedule, assignment.faculty_id),
                               state)
         IN IF activity = None \/ faculty = None
            THEN GenerateTimetableFrom(inst, assignments, types, i + 1, rms, faculty_schedule,
                                       room_schedule, scheduled_activities, state)
            ELSE IF ~(Range(ThesisTypes) \subseteq types)
            THEN [outcome |-> "raised", scheduled_activities |-> scheduled_activities,
                  rooms |-> rms, state |-> state]
            ELSE IF activity[1].activity_type \in Range(ThesisTypes)
            THEN GenerateTimetableFrom(inst, assignments, types, i + 1, rms, faculty_schedule,
                                       room_schedule, scheduled_activities, state)
            ELSE IF out.found = None
            THEN GenerateTimetableFrom(inst, assignments, types, i + 1, out.rooms,
                                       faculty_schedule, room_schedule, scheduled_activities,
                                       Advance(state))
            ELSE GenerateTimetableFrom(
                    inst, assignments, types, i + 1, out.rooms,
                    [faculty_schedule EXCEPT
                        ![assignment.faculty_id][out.found[1].day] = @ \cup {out.found[1].slot_id}],
                    [room_schedule EXCEPT
                        ![out.found[1].room.id][out.found[1].day] = @ \cup {out.found[1].slot_id}],
                    Append(scheduled_activities,
                           [activity_id |-> activity[1].id,
                            faculty_id |-> assignment.faculty_id,
                            day |-> out.found[1].day,
                            slot_id |-> out.found[1].slot_id,
                            room_id |-> out.found[1].room.id,
                            activity_type |-> activity[1].activity_type]),
                    Advance(state))

\* generate_timetable(instance, result, rooms), the whole call
GenerateTimetable(inst, res, types, rms, state) ==
    GenerateTimetableFrom(inst, res.assignments, types, 1, rms,
                          [fid \in FacultyIds(inst) |-> [d \in Range(DayOfWeek) |-> {}]],
                          [rid \in {rms[r].id : r \in 1..Len(rms)} |->
                              [d \in Range(DayOfWeek) |-> {}]],
                          <<>>, state)

\* TimetableGenerator(seed): __init__ seeds the process-wide generator
TGInit ==
    /\ pc = "calls"
    /\ Len(generator.calls) < MaxCalls
    /\ \E seed \in Seeds :
          /\ generator' = [generator EXCEPT !.seed = Some(seed)]
          /\ random_state' = SeedState(seed)
    /\ UNCHANGED <<instance, pc, result, rooms, tt, activity_types, runs>>
    /\ UNCHANGED solveVars

\* A call of generate_timetable on the constructed object with the caller's
\* instance, result and room list
TGGenerate ==
    /\ pc = "calls"
    /\ generator.seed # None
    /\ Len(generator.calls) < MaxCalls
    /\ LET out == GenerateTimetable(instance, result[1], activity_types, rooms, random_state)
       IN /\ generator' = [generator EXCEPT !.calls =
                              Append(@, [seed |-> generator.seed[1],
                                         rooms |-> rooms,
                                         outcome |-> out.outcome,
                                         scheduled_activities |-> out.scheduled_activities])]
          /\ rooms' = out.rooms
          /\ random_state' = out.state
    /\ UNCHANGED <<instance, pc, result, tt, activity_types, runs>>
    /\ UNCHANGED solveVars

\* The process has started (the generator in any state) and holds an
\* instance, a result and a room list to build timetables from
InitCalls ==
    /\ activity_types \in {ActivityType, ActivityTypeSuperset}
    /\ instance = TimetableInstance(activity_types)
    /\ \E n \in 0..MaxAssignments : \E assignments \in [1..n -> AssignmentPool] :
          result = Some([assignments |-> assignments,
                         objective_value |-> 0,
                         total_deviation |-> 0,
                         solver_status |-> "COMPLETED",
                         faculty_loads |-> <<>>,
                         unassigned_activities |-> <<>>,
                         is_feasible |-> TRUE])
    /\ rooms \in RoomCatalogs
    /\ random_state \in 0..(RandomStates - 1)
    /\ generator = IdleGenerator
    /\ runs = <<>>
    /\ pc = "calls"
    /\ tt = IdleTT
    /\ solver = "none"
    /\ params = <<>>
    /\ activity_options = <<>>
    /\ ga = IdleGA
    /\ sa = IdleSA
    /\ hist = IdleHist

NextCalls == TGInit \/ TGGenerate

SpecCalls == InitCalls /\ [][NextCalls]_vars

--------------------------------------------------------------------------
(* Construction of the data model: Faculty, CourseActivity, ProblemInstance *)

\* class FacultyRank(Enum): the names in definition order, each with its
\* value (the Kazakh titles, transliterated)
FacultyRankMembers ==
    <<[name |-> "PROFESSOR", value |-> "Professor"],
      [name |-> "ASSOCIATE_PROFESSOR", value |-> "Docent"],
      [name |-> "ASSISTANT_PROFESSOR", value |-> "Qauymdastyrylgan professor"],
      [name |-> "SENIOR_LECTURER", value |-> "Aga oqytushy"],
      [name |-> "SENIOR_TEACHER", value |-> "Aga oqytushy"],
      [name |-> "TEACHER", value |-> "Oqytushy"],
      [name |-> "ADVISOR", value |-> "Edvaizer"],
      [name |-> "TEACHER_ENGLISH", value |-> "Oqytushy (agylshyn tilinde)"],
      [name |-> "DEAN", value |-> "Dekan/Dekan orynbasary"],
      [name |-> "ADMIN", value |-> "Akimshilik qyzmetker"]>>

FacultyRankNames == {FacultyRankMembers[i].name : i \in DOMAIN FacultyRankMembers}

\* FacultyRank.<name>: the member the name evaluates to.  In an Enum a name
\* whose value an earlier name already has is an alias of that earlier member.
FacultyRank(name) ==
    LET i == CHOOSE j \in DOMAIN FacultyRankMembers : FacultyRankMembers[j].name = name
        first == CHOOSE j \in DOMAIN FacultyRankMembers :
                    /\ FacultyRankMembers[j].value = FacultyRankMembers[i].value
                    /\ \A k \in 1..(j - 1) :
                          FacultyRankMembers[k].value # FacultyRankMembers[i].value
    IN FacultyRankMembers[first].name

\* The entries of the dict display rank_weights, in textual order, weights in tenths
RankWeightEntries ==
    <<<<"PROFESSOR", 15>>, <<"ASSOCIATE_PROFESSOR", 14>>, <<"ASSISTANT_PROFESSOR", 13>>,
      <<"SENIOR_LECTURER", 12>>, <<"SENIOR_TEACHER", 11>>, <<"TEACHER", 10>>,
      <<"ADVISOR", 8>>, <<"TEACHER_ENGLISH", 11>>, <<"DEAN", 15>>, <<"ADMIN", 8>>>>

\* rank_weights.get(rank, 1.0): in a dict display the last entry of a key stays
RankWeights(rank) ==
    LET hits == {i \in DOMAIN RankWeightEntries : FacultyRank(RankWeightEntries[i][1]) = rank}
    IN IF hits = {} THEN 10
       ELSE RankWeightEntries[CHOOSE i \in hits : \A j \in hits : i >= j][2]

\* Faculty(id, rank, target_load, max_load, weight): the dataclass __init__
\* stores the fields and __post_init__ overwrites weight
NewFacultyObject(id, rank_name, target_load, max_load, weight) ==
    [id |-> id, rank |-> FacultyRank(rank_name), target_load |-> target_load,
     max_load |-> max_load, preferences |-> <<>>,
     weight |-> RankWeights(FacultyRank(rank_name))]

\* CourseActivity(id, ..., activity_type, hours, student_count): the dataclass
\* __init__ stores the fields
NewCourseActivityObject(id, activity_type, hours, student_count) ==
    [id |-> id, activity_type |-> activity_type, hours |-> hours,
     student_count |-> student_count]

\* Bound of the model: the number of faculty and of activities constructed
MaxObjects == 1

\* The arguments the constructors are called with: a weight argument (10 is
\* the default 1.0), loads with target below and above max, hours and
\* student counts below zero and above
WeightArgs == {10, 25}
LoadArgs == {<<300, 400>>, <<400, 300>>}
HoursArgs == {-100, 400}
StudentCountArgs == {-1, 30}

\* A Faculty is constructed and appended to the list the instance will hold
NewFaculty ==
    /\ pc = "construct"
    /\ Len(instance.faculty) < MaxObjects
    /\ \E rank_name \in FacultyRankNames, weight \in WeightArgs, loads \in LoadArgs :
          instance' = [instance EXCEPT !.faculty =
                          Append(@, NewFacultyObject(FacultyIdList[Len(@) + 1], rank_name,
                                                     loads[1], loads[2], weight))]
    /\ UNCHANGED <<pc, result>>
    /\ UNCHANGED solveVars
    /\ UNCHANGED ttVars
    /\ UNCHANGED processVars

\* A CourseActivity is constructed and appended to the list the instance will hold
NewCourseActivity ==
    /\ pc = "construct"
    /\ Len(instance.activities) < MaxObjects
    /\ \E hours \in HoursArgs, student_count \in StudentCountArgs :
          instance' = [instance EXCEPT !.activities =
                          Append(@, NewCourseActivityObject(ActivityIdList[Len(@) + 1],
                                                            "LECTURE", hours, student_count))]
    /\ UNCHANGED <<pc, result>>
    /\ UNCHANGED solveVars
    /\ UNCHANGED ttVars
    /\ UNCHANGED processVars

\* ProblemInstance(faculty, activities, qualification_matrix) is constructed
\* from the lists as they are, a solver is constructed and its solve is
\* entered with the instance
NewProblemInstance ==
    /\ pc = "construct"
    /\ pc' = "start"
    /\ instance' = [instance EXCEPT !.qualification_matrix =
                       [p \in FacultyIds(instance) \X ActivityIds(instance) |-> "true"]]
    /\ \E slv \in {"ortools", "pulp", "genetic", "sa"} :
          /\ solver' = slv
          /\ params' \in (CASE slv = "genetic" -> GeneticParams
                            [] slv = "sa" -> AnnealingParams
                            [] OTHER -> ExactParams)
    /\ UNCHANGED <<activity_options, ga, sa, hist, result>>
    /\ UNCHANGED ttVars
    /\ UNCHANGED processVars

\* Nothing is constructed yet
InitModels ==
    /\ instance = [faculty |-> <<>>, activities |-> <<>>, qualification_matrix |-> <<>>]
    /\ pc = "construct"
    /\ solver = "none"
    /\ params = <<>>
    /\ activity_options = <<>>
    /\ ga = IdleGA
    /\ sa = IdleSA
    /\ hist = IdleHist
    /\ result = NoResult
    /\ rooms = <<>>
    /\ tt = IdleTT
    /\ activity_types = ActivityType
    /\ random_state = 0
    /\ runs = <<>>
    /\ generator = IdleGenerator

NextModels == NewFaculty \/ NewCourseActivity \/ NewProblemInstance

SpecModels == InitModels /\ [][NextModels]_vars

--------------------------------------------------------------------------
(* The concrete scenarios, solved by the exact solvers *)

\* Bound of the model: the largest number of activities of a scenario instance
MaxScenarioActivities == 5

ScenarioActivityIds == <<"x", "y", "z", "u", "v", "w">>

\* Two faculty of the same target_load, max_load and weight, n activities of
\* 20 hours each, every pair qualified
ScenarioInstance(n, target_load, max_load, weight) ==
    [faculty |->
        [k \in 1..2 |-> [id |-> FacultyIdList[k], target_load |-> target_load,
                         max_load |-> max_load, weight |-> weight,
                         preferences |-> <<>>]],
     activities |->
        [i \in 1..n |-> [id |-> ScenarioActivityIds[i], hours |-> 400,
                         activity_type |-> "LECTURE", student_count |-> 30]],
     qualification_matrix |->
        [p \in Range(FacultyIdList) \X {ScenarioActivityIds[i] : i \in 1..n} |-> "true"]]

\* Scenario 2: A and B with target 40, max 60, weight 1; x, y, z of 20 hours
TwoFacultyBalance == ScenarioInstance(3, 800, 1200, 10)

\* Scenario 3: two faculty with target 50, max 50; five activities of 20 hours
CapacityTight == ScenarioInstance(5, 1000, 1000, 10)

ScenarioInstances ==
    {ScenarioInstance(n, loads[1], loads[2], weight) :
        n \in 1..MaxScenarioActivities,
        loads \in {<<800, 1200>>, <<1000, 1000>>},
        weight \in {10, 15}}

\* An exact solver has been constructed and solve(instance) is entered
InitScenarios ==
    /\ instance \in ScenarioInstances
    /\ solver \in {"ortools", "pulp"}
    /\ params \in ExactParams
    /\ pc = "start"
    /\ activity_options = <<>>
    /\ ga = IdleGA
    /\ sa = IdleSA
    /\ hist = IdleHist
    /\ result = NoResult
    /\ rooms = <<>>
    /\ tt = IdleTT
    /\ activity_types = ActivityType
    /\ random_state = 0
    /\ runs = <<>>
    /\ generator = IdleGenerator

NextScenarios == ORToolsSolve \/ PuLPSolve

SpecScenarios == InitScenarios /\ [][NextScenarios]_vars

--------------------------------------------------------------------------
(* A scenario solved by an exact solver and its result timetabled *)

\* generate_timetable(instance, result, rooms) is called with the result the
\* solver returned
TTEnter ==
    /\ pc = "done"
    /\ result # NoResult
    /\ pc' = "tt_start"
    /\ UNCHANGED <<instance, result>>
    /\ UNCHANGED solveVars
    /\ UNCHANGED ttVars
    /\ UNCHANGED processVars

\* The room lists of the timetabled scenarios: two rooms that fit every
\* activity (30 students), two rooms that fit none, and no room
ScenarioCatalogs ==
    {<<[id |-> "CR01", room_type |-> "CLASSROOM", capacity |-> 40],
       [id |-> "CR02", room_type |-> "CLASSROOM", capacity |-> 30]>>,
     <<[id |-> "CL01", room_type |-> "COMPUTER_LAB", capacity |-> 25],
       [id |-> "LB01", room_type |-> "LABORATORY", capacity |-> 20]>>,
     <<>>}

\* The scenarios that are timetabled: one, two and three activities with
\* target 40 and max 60, and the capacity-tight scenario
TimetabledScenarios ==
    {ScenarioInstance(1, 800, 1200, 10), ScenarioInstance(2, 800, 1200, 10),
     TwoFacultyBalance, CapacityTight}

InitPipeline ==
    /\ instance \in TimetabledScenarios
    /\ solver \in {"ortools", "pulp"}
    /\ params \in ExactParams
    /\ pc = "start"
    /\ activity_options = <<>>
    /\ ga = IdleGA
    /\ sa = IdleSA
    /\ hist = IdleHist
    /\ result = NoResult
    /\ rooms \in ScenarioCatalogs
    /\ tt = IdleTT
    /\ activity_types \in {ActivityType, ActivityTypeSuperset}
    /\ random_state = 0
    /\ runs = <<>>
    /\ generator = IdleGenerator

NextPipeline ==
    \/ ORToolsSolve \/ PuLPSolve
    \/ TTEnter
    \/ TTStart \/ TTAssignment \/ TTReturn

SpecPipeline == InitPipeline /\ [][NextPipeline]_vars

--------------------------------------------------------------------------
(* The timetabling pass over catalogs of every kind of room *)

\* Bound of the model: the number of assignments of a timetabled result
MaxRoomAssignments == 2

\* Two faculty; a lecture of 30 students, a lab of 10, a practical of 200 and,
\* where the enum has the member, a research activity
RoomsInstance(types) ==
    [faculty |->
        <<[id |-> FacultyIdList[1], target_load |-> 300, max_load |-> 400,
           weight |-> 15, preferences |-> <<>>],
          [id |-> FacultyIdList[2], target_load |-> 300, max_load |-> 400,
           weight |-> 10, preferences |-> <<>>]>>,
     activities |->
        <<[id |-> "a1", hours |-> 400, activity_type |-> "LECTURE", student_count |-> 30],
          [id |-> "a2", hours |-> 400, activity_type |-> "LAB", student_count |-> 10],
          [id |-> "a3", hours |-> 400, activity_type |-> "PRACTICAL", student_count |-> 200]>>
        \o (IF "RESEARCH_NIRM" \in types
            THEN <<[id |-> "a4", hours |-> 400, activity_type |-> "RESEARCH_NIRM",
                    student_count |-> 1]>>
            ELSE <<>>),
     qualification_matrix |->
        [q \in Range(FacultyIdList) \X {"a1", "a2", "a3", "a4"} |-> "true"]]

\* The assignments a result may hold
RoomsAssignmentPool ==
    {[faculty_id |-> pr[1], activity_id |-> pr[2], preference_score |-> 0] :
        pr \in {<<11, "a1">>, <<11, "a2">>, <<12, "a3">>, <<12, "a4">>, <<12, "a1">>}}

\* The room lists passed as rooms: a lecture hall and a small laboratory; one
\* classroom; a large laboratory and a small classroom; no room
AllKindsOfCatalogs ==
    {<<[id |-> "LH01", room_type |-> "LECTURE_HALL", capacity |-> 100],
       [id |-> "LB01", room_type |-> "LABORATORY", capacity |-> 20]>>,
     <<[id |-> "CR01", room_type |-> "CLASSROOM", capacity |-> 30]>>,
     <<[id |-> "LB01", room_type |-> "LABORATORY", capacity |-> 40],
       [id |-> "CR01", room_type |-> "CLASSROOM", capacity |-> 20]>>,
     <<>>}

\* A TimetableGenerator has been constructed and generate_timetable(instance,
\* result, rooms) is entered
InitRooms ==
    /\ activity_types \in {ActivityType, ActivityTypeSuperset}
    /\ instance = RoomsInstance(activity_types)
    /\ \E n \in 0..MaxRoomAssignments : \E assignments \in [1..n -> RoomsAssignmentPool] :
          result = Some([assignments |-> assignments,
                         objective_value |-> 0,
                         total_deviation |-> 0,
                         solver_status |-> "COMPLETED",
                         faculty_loads |-> <<>>,
                         unassigned_activities |-> <<>>,
                         is_feasible |-> TRUE])
    /\ rooms \in AllKindsOfCatalogs
    /\ pc = "tt_start"
    /\ tt = IdleTT
    /\ solver = "none"
    /\ params = [seed |-> 42]
    /\ activity_options = <<>>
    /\ ga = IdleGA
    /\ sa = IdleSA
    /\ hist = IdleHist
    /\ random_state = 0
    /\ runs = <<>>
    /\ generator = IdleGenerator

NextRooms == TTStart \/ TTAssignment \/ TTReturn

SpecRooms == InitRooms /\ [][NextRooms]_vars

--------------------------------------------------------------------------
(* GeneticSolver with every elite_size up to the population size *)

\* GeneticSolver(population_size=2, generations, elite_size): elite_size from
\* 0 to population_size
EliteParams ==
    {[population_size |-> 2, generations |-> g, mutation_rate |-> 1,
      crossover_rate |-> 8, elite_size |-> e] : g \in 0..MaxGenerations, e \in 0..2}

\* A GeneticSolver has been constructed and solve(instance) is entered
InitElite ==
    /\ instance \in RunInstances
    /\ solver = "genetic"
    /\ params \in EliteParams
    /\ pc = "start"
    /\ activity_options = <<>>
    /\ ga = IdleGA
    /\ sa = IdleSA
    /\ hist = IdleHist
    /\ result = NoResult
    /\ rooms = <<>>
    /\ tt = IdleTT
    /\ activity_types = ActivityType
    /\ random_state = 0
    /\ runs = <<>>
    /\ generator = IdleGenerator

NextElite == GAStart \/ GAGenerationsDone \/ GATimeLimit \/ GAGeneration \/ GAFinal

SpecElite == InitElite /\ [][NextElite]_vars

--------------------------------------------------------------------------
(* Properties of the solvers *)

Returned == result # NoResult
Exact == solver \in {"ortools", "pulp"}
Metaheuristic == solver \in {"genetic", "sa"}
SolveEnded == pc \in {"done", "raised"}

\* hours of the activity with the given id
HoursOf(inst, aid) ==
    LET i == CHOOSE j \in 1..Len(inst.activities) : inst.activities[j].id = aid
    IN inst.activities[i].hours

\* Sum of the hours of the activities a sequence of assignments gives to fid
AssignedHours(inst, assignments, fid) ==
    SumSeq([j \in 1..Len(assignments) |->
              IF assignments[j].faculty_id = fid
              THEN HoursOf(inst, assignments[j].activity_id) ELSE 0])

\* Positions of the activities without any qualified faculty, read off the matrix
Uncovered(inst) ==
    {i \in 1..Len(inst.activities) :
        \A k \in 1..Len(inst.faculty) :
            inst.qualification_matrix[<<inst.faculty[k].id, inst.activities[i].id>>] # "true"}

\* C2: in every result with is_feasible = true, each activity of the instance
\* appears in exactly one Assignment.
C2_Coverage ==
    (Returned /\ result[1].is_feasible) =>
        \A aid \in ActivityIds(instance) :
            Cardinality({j \in 1..Len(result[1].assignments) :
                            result[1].assignments[j].activity_id = aid}) = 1

\* C3: every Assignment (f, a) of a returned result has
\* qualification_matrix[(f, a)] = true; an absent or false pair is never assigned.
C3_Eligibility ==
    Returned =>
        \A j \in 1..Len(result[1].assignments) :
            instance.qualification_matrix[<<result[1].assignments[j].faculty_id,
                                           result[1].assignments[j].activity_id>>] = "true"

\* C3 witness: a solver has assigned both activities on an instance whose
\* matrix has a false entry and an absent entry.
C3_Witness ==
    /\ Returned /\ Len(result[1].assignments) = 2
    /\ \E p \in DOMAIN instance.qualification_matrix :
          instance.qualification_matrix[p] = "false"
    /\ \E p \in DOMAIN instance.qualification_matrix :
          instance.qualification_matrix[p] = "absent"

\* C4: in every OPTIMAL, FEASIBLE or COMPLETED result, faculty_loads has an
\* entry for every faculty and faculty_loads[f] is the sum of the hours of
\* exactly the activities assigned to f.
C4_LoadIdentity ==
    (Returned /\ result[1].solver_status \in {"OPTIMAL", "FEASIBLE", "COMPLETED"}) =>
        /\ DOMAIN result[1].faculty_loads = FacultyIds(instance)
        /\ \A fid \in FacultyIds(instance) :
              result[1].faculty_loads[fid]
                  = AssignedHours(instance, result[1].assignments, fid)

\* C4 witness: a result in which one faculty has both activities and the
\* other has none (load 0).
C4_Witness ==
    /\ Returned /\ result[1].solver_status \in {"OPTIMAL", "FEASIBLE", "COMPLETED"}
    /\ Len(result[1].assignments) = 2
    /\ \E fid \in FacultyIds(instance) : result[1].faculty_loads[fid] = 0

\* C5: in every OPTIMAL or FEASIBLE result of an exact solver,
\* faculty_loads[f] <= max_load(f) for every faculty f.
C5_ExactCapacity ==
    (Exact /\ Returned /\ result[1].solver_status \in {"OPTIMAL", "FEASIBLE"}) =>
        \A k \in 1..Len(instance.faculty) :
            result[1].faculty_loads[instance.faculty[k].id] <= instance.faculty[k].max_load

\* C6: when some activity has no qualified faculty, GA and SA return
\* INFEASIBLE, is_feasible = false, no assignments and an unassigned activity
\* that has no qualified faculty, having drawn no random number and
\* evaluated no chromosome.
C6_EarlyInfeasible ==
    (Metaheuristic /\ Uncovered(instance) # {} /\ pc # "start") =>
        /\ pc = "done" /\ Returned
        /\ result[1].solver_status = "INFEASIBLE"
        /\ result[1].is_feasible = FALSE
        /\ result[1].assignments = <<>>
        /\ \E j \in 1..Len(result[1].unassigned_activities) :
           \E i \in Uncovered(instance) :
              result[1].unassigned_activities[j] = instance.activities[i].id
        /\ hist.rng = FALSE
        /\ hist.evaluated = {}

\* C6 witness: the early return on an instance whose first activity has a
\* qualified faculty and whose second has none.
C6_Witness ==
    /\ Metaheuristic /\ pc = "done"
    /\ Uncovered(instance) = {2}

\* C7: when some activity has no qualified faculty, an exact solver never
\* returns OPTIMAL or FEASIBLE: its result has is_feasible = false and
\* unassigned_activities contains that activity.
C7_ExactUncoverable ==
    (Exact /\ Uncovered(instance) # {} /\ Returned) =>
        /\ result[1].solver_status \notin {"OPTIMAL", "FEASIBLE"}
        /\ result[1].is_feasible = FALSE
        /\ \A i \in Uncovered(instance) :
              instance.activities[i].id \in Range(result[1].unassigned_activities)

\* C8: when every activity has a qualified faculty and the total hours exceed
\* the total max_load, no solver returns is_feasible = true: an exact solver
\* returns neither OPTIMAL nor FEASIBLE, GA and SA return COMPLETED.
C8_CapacityInfeasible ==
    (/\ Uncovered(instance) = {}
     /\ TotalDemand(instance) > TotalCapacity(instance)
     /\ Returned) =>
        /\ result[1].is_feasible = FALSE
        /\ Exact => result[1].solver_status \notin {"OPTIMAL", "FEASIBLE"}
        /\ Metaheuristic => result[1].solver_status = "COMPLETED"

\* C9: on an instance in which each activity has a qualified faculty, a result
\* of GA or SA has solver_status = COMPLETED, and is_feasible is true if and
\* only if no faculty has faculty_loads[f] > max_load(f).
C9_CompletedFeasibility ==
    (Metaheuristic /\ Uncovered(instance) = {} /\ Returned) =>
        /\ result[1].solver_status = "COMPLETED"
        /\ result[1].is_feasible
             <=> (\A k \in 1..Len(instance.faculty) :
                     ~(result[1].faculty_loads[instance.faculty[k].id]
                          > instance.faculty[k].max_load))

\* C9 witness: a COMPLETED result that overloads a faculty by less than the
\* smallest hours step (20.05 h on max_load 20.0 h).
C9_Witness ==
    /\ Metaheuristic /\ Returned
    /\ result[1].solver_status = "COMPLETED"
    /\ \E k \in 1..Len(instance.faculty) :
          result[1].faculty_loads[instance.faculty[k].id] = instance.faculty[k].max_load + 1

\* The chromosomes of least energy among those evaluated so far
LowestEvaluated ==
    {c \in hist.evaluated :
        \A d \in hist.evaluated : CalculateEnergy(instance, c) <= CalculateEnergy(instance, d)}

\* C10: when the time limit has elapsed at a loop-head check of GA or SA (at
\* any generation or block, the first included, and likewise with
\* generations = 0), the solve returns a result whose assignments encode the
\* lowest-energy chromosome evaluated so far.
C10_TimeLimitReturnsBest ==
    (/\ Metaheuristic /\ SolveEnded /\ Uncovered(instance) = {}
     /\ hist.exit = "time" \/ (solver = "genetic" /\ params.generations = 0)) =>
        /\ Returned
        /\ \E c \in LowestEvaluated : result[1].assignments = AssignmentsOf(instance, c)

\* The statuses every solver shares
SharedStatuses == {"OPTIMAL", "FEASIBLE", "COMPLETED", "INFEASIBLE", "UNKNOWN", "ERROR"}

\* C15: every result any solver returns has a solver_status of the shared
\* enumeration {OPTIMAL, FEASIBLE, COMPLETED, INFEASIBLE, UNKNOWN, ERROR}, and
\* an exact solver that returns without a solution although the model has one
\* (its deadline passed without an incumbent) reports UNKNOWN.
C15_SharedStatus ==
    Returned =>
        /\ result[1].solver_status \in SharedStatuses
        /\ (/\ Exact /\ ~result[1].is_feasible
            /\ (IF solver = "ortools" THEN CpSolutions(instance)
                ELSE LpSolutions(instance)) # {}) =>
               result[1].solver_status = "UNKNOWN"

\* C16 as the specification states it: on the capacity-tight instance an
\* exact solver returns OPTIMAL with each faculty loaded 50 hours and
\* total_deviation = 0.
C16_CapacityTightOptimal ==
    (Exact /\ Returned /\ instance = CapacityTight) =>
        /\ result[1].solver_status = "OPTIMAL"
        /\ \A fid \in FacultyIds(instance) : result[1].faculty_loads[fid] = 1000
        /\ result[1].total_deviation = 0

\* C16, amended: on the capacity-tight instance (two faculty with target and
\* max 50, five activities of 20 hours) an exact solver returns no solution:
\* the status is neither OPTIMAL nor FEASIBLE, is_feasible is false, there is
\* no assignment and every activity is listed as unassigned.
C16_CapacityTightNoSolution ==
    (Exact /\ Returned /\ instance = CapacityTight) =>
        /\ result[1].solver_status \notin {"OPTIMAL", "FEASIBLE"}
        /\ ~result[1].is_feasible
        /\ result[1].assignments = <<>>
        /\ result[1].unassigned_activities
              = [i \in 1..Len(instance.activities) |-> instance.activities[i].id]

C16_Witness ==
    /\ Exact /\ Returned /\ instance = CapacityTight
    /\ result[1].solver_status = "INFEASIBLE"

\* The loads of a result are 40 and 20 hours, either way round
BalanceSplit(loads) ==
    \E f, g \in DOMAIN loads : f # g /\ loads[f] = 800 /\ loads[g] = 400

\* C17 as the specification states it: on the two-faculty balance instance
\* an OPTIMAL result of an exact solver has a 40/20 or 20/40 split and the
\* total_deviation it reports is 40.
C17_BalanceDeviation40 ==
    (Exact /\ Returned /\ instance = TwoFacultyBalance
     /\ result[1].solver_status = "OPTIMAL") =>
        /\ BalanceSplit(result[1].faculty_loads)
        /\ result[1].total_deviation = 800

\* C17, amended: on the two-faculty balance instance (A and B with target 40,
\* max 60, weight 1; three activities of 20 hours) an OPTIMAL result of an
\* exact solver has a 40/20 or 20/40 split, is feasible, and the
\* total_deviation it reports is 20.
C17_BalanceDeviation20 ==
    (Exact /\ Returned /\ instance = TwoFacultyBalance
     /\ result[1].solver_status = "OPTIMAL") =>
        /\ BalanceSplit(result[1].faculty_loads)
        /\ result[1].is_feasible
        /\ result[1].total_deviation = 400

C17_Witness ==
    /\ Exact /\ Returned /\ instance = TwoFacultyBalance
    /\ result[1].solver_status = "OPTIMAL"
    /\ result[1].faculty_loads[FacultyIdList[1]] = 400
    /\ result[1].faculty_loads[FacultyIdList[2]] = 800

\* C23: the neighbour a step of SimulatedAnnealingSolver generates differs
\* from the current solution in exactly one gene, which is another faculty of
\* that activity's qualified list; all other genes are unchanged.
C23_NeighborDiffersInOneGene ==
    [][(solver = "sa" /\ pc = "sa_step") =>
          LET neighbor == hist'.neighbor[1]
              changed == {i \in DOMAIN sa.current_solution :
                             neighbor[i] # sa.current_solution[i]}
          IN /\ Len(neighbor) = Len(sa.current_solution)
             /\ Cardinality(changed) = 1
             /\ \A i \in changed : neighbor[i] \in Range(activity_options[i])
      ]_vars

\* C24: the annealing loop runs another block of steps exactly while the
\* temperature has not dropped below min_temp: when the loop ends on its
\* temperature test, the temperature is below min_temp.
C24_StopsBelowMinTemp ==
    (solver = "sa" /\ hist.exit = "temp") => sa.temp < params.min_temp

\* The smallest energy of a population
MinEnergy(population) ==
    LET scores == {CalculateFitness(instance, population[i]) : i \in DOMAIN population}
    IN CHOOSE m \in scores : \A s \in scores : m <= s

\* Some E lowest-energy individuals of the population appear, each at a
\* position of its own, in the next population
ElitesCarried(population, next, E) ==
    \E f \in [1..E -> DOMAIN population] :
    \E g \in [1..E -> DOMAIN next] :
        /\ \A i, j \in 1..E : i # j => (f[i] # f[j] /\ g[i] # g[j])
        /\ \A i \in 1..E : \A j \in DOMAIN population \ {f[k] : k \in 1..E} :
              CalculateFitness(instance, population[f[i]])
                  <= CalculateFitness(instance, population[j])
        /\ \A i \in 1..E : next[g[i]] = population[f[i]]

\* A generation of GeneticSolver whose elite_size does not exceed the
\* population has run in this step
GenerationStep ==
    /\ solver = "genetic" /\ pc = "ga_loop"
    /\ ga'.generation = ga.generation + 1
    /\ params.elite_size <= Len(ga.population)

\* C25 as the specification states it: in every generation with elite_size
\* <= population_size the elite_size lowest-energy individuals appear
\* unchanged in the next population, which again has population_size
\* individuals, and the minimum energy of the population does not increase.
C25_ElitesKeepMinimum ==
    [][GenerationStep =>
          /\ Len(ga'.population) = params.population_size
          /\ ElitesCarried(ga.population, ga'.population, params.elite_size)
          /\ MinEnergy(ga'.population) <= MinEnergy(ga.population)
      ]_vars

\* C25, amended: in every generation with elite_size <= population_size the
\* elite_size lowest-energy individuals appear unchanged in the next
\* population, which again has population_size individuals; when elite_size
\* is at least 1 the minimum energy of the population does not increase.
C25_ElitesCarried ==
    [][GenerationStep =>
          /\ Len(ga'.population) = params.population_size
          /\ ElitesCarried(ga.population, ga'.population, params.elite_size)
          /\ params.elite_size >= 1 =>
                MinEnergy(ga'.population) <= MinEnergy(ga.population)
      ]_vars

\* C25 witness: after a generation with one elite the population holds the
\* elite and a child of higher energy.
C25_Witness ==
    /\ solver = "genetic" /\ pc = "ga_loop"
    /\ ga.generation >= 1
    /\ params.elite_size = 1
    /\ CalculateFitness(instance, ga.population[1])
          < CalculateFitness(instance, ga.population[2])

\* A chromosome has one gene per activity and every gene is the position of
\* a faculty the qualification matrix marks qualified for that activity
QualifiedChromosome(chrom) ==
    /\ Len(chrom) = Len(instance.activities)
    /\ \A i \in 1..Len(chrom) :
          /\ chrom[i] \in 1..Len(instance.faculty)
          /\ instance.qualification_matrix[<<instance.faculty[chrom[i]].id,
                                             instance.activities[i].id>>] = "true"

\* C26: at every point of a GeneticSolver or SimulatedAnnealingSolver run on
\* a coverable instance every chromosome (each population member, the best
\* individual, every individual evaluated, the annealing current, neighbour
\* and best solutions) has length |activities| and every gene is a faculty
\* qualified for its activity.
C26_QualifiedByConstruction ==
    /\ (solver = "genetic" /\ pc \in {"ga_loop", "ga_final", "done", "raised"}
        /\ Coverable(instance)) =>
          /\ \A i \in DOMAIN ga.population : QualifiedChromosome(ga.population[i])
          /\ ga.best_solution # None => QualifiedChromosome(ga.best_solution[1])
          /\ \A c \in hist.evaluated : QualifiedChromosome(c)
    /\ (solver = "sa" /\ pc \in {"sa_loop", "sa_step", "sa_final", "done"}
        /\ Coverable(instance)) =>
          /\ QualifiedChromosome(sa.current_solution)
          /\ QualifiedChromosome(sa.best_solution)
          /\ hist.neighbor # None => QualifiedChromosome(hist.neighbor[1])
          /\ \A c \in hist.evaluated : QualifiedChromosome(c)

\* C26 witness: a generation has run on an instance whose two activities have
\* different qualified lists.
C26_Witness ==
    /\ solver = "genetic" /\ pc = "ga_loop"
    /\ ga.generation >= 1
    /\ activity_options[1] # activity_options[2]

\* The weighted deviation of a complete assignment: the sum over the faculty
\* of weight * |load - target_load|
WeightedDeviation(inst, chrom) ==
    SumSeq([k \in 1..Len(inst.faculty) |->
              inst.faculty[k].weight
              * Abs(LoadOf(inst, chrom, k) - inst.faculty[k].target_load)])

\* The complete assignments of qualified faculty without an overload
CompleteAssignments(inst) ==
    {c \in [1..Len(inst.activities) -> 1..Len(inst.faculty)] :
        /\ \A i \in 1..Len(c) :
              inst.qualification_matrix[<<inst.faculty[c[i]].id,
                                          inst.activities[i].id>>] = "true"
        /\ \A k \in 1..Len(inst.faculty) : LoadOf(inst, c, k) <= inst.faculty[k].max_load}

\* The objective the solver of this run minimises
ObjectiveOf(inst, chrom) ==
    CASE solver = "ortools" -> CpObjective(inst, chrom)
      [] solver = "pulp" -> LpObjective(inst, chrom)
      [] solver = "genetic" -> CalculateFitness(inst, chrom)
      [] solver = "sa" -> CalculateEnergy(inst, chrom)

\* C27: for two complete assignments of the instance with equal weighted
\* deviation and no overload, the one with the larger total preference score
\* has the strictly smaller objective, in every solver.
C27_PreferenceInObjective ==
    (pc = "start" /\ solver \in {"ortools", "pulp", "genetic", "sa"}) =>
        \A c1, c2 \in CompleteAssignments(instance) :
            (/\ WeightedDeviation(instance, c1) = WeightedDeviation(instance, c2)
             /\ TotalPreference(instance, c1) > TotalPreference(instance, c2)) =>
                ObjectiveOf(instance, c1) < ObjectiveOf(instance, c2)

\* The positions of SimulatedAnnealingSolver.solve at which the search state
\* exists
SASearching(at) == at \in {"sa_loop", "sa_step", "sa_final"}

\* C29: throughout the annealing, after every step, best_energy is at most
\* current_energy and is the energy of best_solution; best_energy never
\* increases, and best_solution changes only together with a strict decrease
\* of best_energy, so no later mutation or acceptance alters it, on the
\* improving branch and on the other one alike.
C29_BestTracksMinimum ==
    [][(solver = "sa" /\ SASearching(pc')) =>
          /\ sa'.best_energy <= sa'.current_energy
          /\ sa'.best_energy = CalculateEnergy(instance, sa'.best_solution)
          /\ sa'.current_energy = CalculateEnergy(instance, sa'.current_solution)
          /\ SASearching(pc) =>
                /\ sa'.best_energy <= sa.best_energy
                /\ sa'.best_solution # sa.best_solution =>
                      sa'.best_energy < sa.best_energy]_vars

\* A neighbour that is not better was accepted: current_solution is the last
\* neighbour, it is not best_solution, and best_energy stays at most its
\* energy (both the case delta_energy = 0 and the case delta_energy > 0 occur)
C29_Witness ==
    /\ solver = "sa" /\ pc \in {"sa_loop", "sa_step"}
    /\ hist.neighbor = Some(sa.current_solution)
    /\ sa.current_solution # sa.best_solution
    /\ sa.best_energy < sa.current_energy

\* The chromosome a list of assignments encodes: the position of the faculty
\* of each assignment
ChromosomeOfAssignments(inst, assignments) ==
    [i \in 1..Len(assignments) |->
        CHOOSE k \in 1..Len(inst.faculty) : inst.faculty[k].id = assignments[i].faculty_id]

\* C30: for every COMPLETED result of the genetic solver, objective_value is
\* the energy recomputed from the returned assignments, total_deviation and
\* faculty_loads derive from the same chromosome, and objective_value is the
\* least energy over all individuals evaluated; the best individual changes
\* only when a strictly better one is evaluated, never by a later mutation.
C30_ResultConsistent ==
    [][solver = "genetic" =>
          /\ (pc = "ga_loop" /\ ga'.best_solution # ga.best_solution) =>
                /\ ga'.best_fitness < ga.best_fitness
                /\ ga'.best_fitness = CalculateFitness(instance, ga'.best_solution[1])
          /\ (result' # NoResult /\ result'[1].solver_status = "COMPLETED") =>
                LET chrom == ChromosomeOfAssignments(instance, result'[1].assignments)
                IN /\ Len(chrom) = Len(instance.activities)
                   /\ chrom \in hist'.evaluated
                   /\ result'[1].objective_value = CalculateFitness(instance, chrom)
                   /\ result'[1].faculty_loads = FacultyLoadsOf(instance, chrom)
                   /\ result'[1].total_deviation =
                          TotalDeviation(instance, FacultyLoadsOf(instance, chrom))
                   /\ \A d \in hist'.evaluated :
                          result'[1].objective_value <= CalculateFitness(instance, d)]_vars

\* A COMPLETED result of the genetic solver whose best individual was found
\* in an earlier generation and is no longer in the population, with
\* individuals of higher energy evaluated too
C30_Witness ==
    /\ solver = "genetic" /\ pc = "done" /\ Returned
    /\ result[1].solver_status = "COMPLETED"
    /\ ga.generation >= 2
    /\ ga.best_solution[1] \notin Range(ga.population)
    /\ \E d \in hist.evaluated :
          CalculateFitness(instance, d) > result[1].objective_value

--------------------------------------------------------------------------
(* Properties of runs that share the generator *)

\* C11: two runs of GeneticSolver.solve (or of SimulatedAnnealingSolver.solve)
\* on the same instance with the same parameters return the same result,
\* whatever other code ran before or between them.
C11_SameInputsSameResult ==
    \A j, k \in DOMAIN runs :
        (/\ runs[j].pc = "done" /\ runs[k].pc = "done"
         /\ runs[j].solver = runs[k].solver
         /\ runs[j].params = runs[k].params) =>
            runs[j].result = runs[k].result

\* C12: a solve that other solves overlap returns the result it returns when
\* it runs alone from the state of the generator it was entered in.
C12_NoSharedState ==
    \A k \in DOMAIN runs :
        runs[k].pc = "done" =>
            runs[k].result
                = RunAlone(instance, NewRun(runs[k].solver, runs[k].params),
                           runs[k].start_state[1]).result

--------------------------------------------------------------------------
(* Properties of the data model *)

\* The weight the rank table of the specification gives each rank, in tenths
TableWeight(rank_name) ==
    CASE rank_name \in {"PROFESSOR", "DEAN"} -> 15
      [] rank_name = "ASSOCIATE_PROFESSOR" -> 14
      [] rank_name = "ASSISTANT_PROFESSOR" -> 13
      [] rank_name = "SENIOR_LECTURER" -> 12
      [] rank_name \in {"SENIOR_TEACHER", "TEACHER_ENGLISH"} -> 11
      [] rank_name = "TEACHER" -> 10
      [] rank_name \in {"ADVISOR", "ADMIN"} -> 8

\* C14: every Faculty constructed with any rank has the weight the table gives
\* that rank (Professor and Dean 1.5, Associate 1.4, Assistant 1.3, Senior
\* Lecturer 1.2, Senior Teacher and Teacher (English) 1.1, Teacher 1.0,
\* Advisor and Admin 0.8), whatever weight argument was passed.
C14_WeightFromRank ==
    \A i \in DOMAIN instance.faculty :
        "rank" \in DOMAIN instance.faculty[i] =>
            \A rank_name \in FacultyRankNames :
                FacultyRank(rank_name) = instance.faculty[i].rank =>
                    instance.faculty[i].weight = TableWeight(rank_name)

\* An instance no constructor may accept: negative hours or student count,
\* no faculty, no activity, or a target_load above max_load
InvalidInstance(inst) ==
    \/ inst.faculty = <<>>
    \/ inst.activities = <<>>
    \/ \E i \in DOMAIN inst.activities :
          inst.activities[i].hours < 0 \/ inst.activities[i].student_count < 0
    \/ \E i \in DOMAIN inst.faculty :
          inst.faculty[i].target_load > inst.faculty[i].max_load

\* C18: constructing an invalid instance raises at construction, so no
\* solver's solve is entered with such an instance.
C18_InvalidRejected == pc = "start" => ~InvalidInstance(instance)

--------------------------------------------------------------------------
(* Properties of the timetabling pass *)

RoomOccupying(inst, assignment) ==
    /\ FirstWithId(inst.activities, assignment.activity_id) # None
    /\ FirstWithId(inst.faculty, assignment.faculty_id) # None
    /\ FirstWithId(inst.activities, assignment.activity_id)[1].activity_type
          \notin Range(ThesisTypes)

\* The cells of the weekly grid: 5 days of 8 slots
GridCells == Len(DayOfWeek) * Len(StandardSlots)

\* What C19 says of every result: a timetable returned for a result of at
\* most 40 room-occupying assignments and a non-empty room catalog holds
\* exactly one ScheduledActivity for each of them, in the order of the
\* assignments, and has no conflict
EveryOccupyingScheduled ==
    (pc = "tt_done" /\ tt.rooms_in # <<>>) =>
        LET occupying == SelectSeq(result[1].assignments,
                                   LAMBDA a : RoomOccupying(instance, a))
        IN Len(occupying) <= GridCells =>
              /\ Len(tt.scheduled_activities) = Len(occupying)
              /\ \A i \in 1..Len(occupying) :
                    /\ tt.scheduled_activities[i].activity_id = occupying[i].activity_id
                    /\ tt.scheduled_activities[i].faculty_id = occupying[i].faculty_id
              /\ CheckConflicts(tt.scheduled_activities) = {}

FreeTriples ==
    LET assignment == result[1].assignments[tt.i]
        activity == FirstWithId(instance.activities, assignment.activity_id)[1]
        candidates == Range(SuitableRooms(activity, rooms).list)
    IN {c \in {r.id : r \in candidates} \X Range(DayOfWeek) \X Range(StandardSlots) :
           SlotFree(tt.room_schedule, tt.faculty_schedule, c[1],
                    assignment.faculty_id, c[2], c[3])}

ClaimedPreferred(activity_type) ==
    CASE activity_type = "LECTURE" -> {"LECTURE_HALL", "CLASSROOM"}
      [] activity_type \in {"PRACTICAL", "SEMINAR"} -> {"CLASSROOM"}
      [] activity_type = "LAB" -> {"LABORATORY", "COMPUTER_LAB"}
      [] OTHER -> {}

\* The room of the catalog a scheduled activity sits in
RoomOf(s) == CHOOSE r \in Range(tt.rooms_in) : r.id = s.room_id

\* The rooms of the catalog that fit the activity of a scheduled activity,
\* and those of them of a preferred type
FittingRooms(s) ==
    {r \in Range(tt.rooms_in) :
        r.capacity >= FirstWithId(instance.activities, s.activity_id)[1].student_count}

PreferredFittingRooms(s) ==
    {r \in FittingRooms(s) :
        r.room_type \in ClaimedPreferred(s.activity_type)}

====
